---- MODULE Spec2Model ----
(***************************************************************************)
(* State-machine model of the pgsql output stage of osm2pgsql              *)
(* (output-pgsql.cpp): the feature emitter (node/way/relation add, modify, *)
(* delete), the pending/done ID trackers and the two deferred passes       *)
(* (way_cb_func, rel_cb_func).                                             *)
(*                                                                         *)
(* External collaborators (middle store, tag transform, geometry builder,  *)
(* ID tracker, output table, expire accumulator) are modelled by their     *)
(* contracts.  Tags and node lists are abstracted to the classes the code  *)
(* branches on.                                                            *)
(***************************************************************************)
EXTENDS Integers, Sequences, FiniteSets, Bags, TLC

\* ------------------------------------------------------------------ bounds
MaxWay == 2
MaxRel == 1
MaxNode == 1
MaxOps == 3
MaxHstoreCols == 2
MaxLines == 3
MaxMembers == 3

\* std::numeric_limits<osmid_t>::max(), the value pop_mark returns on an
\* empty tracker (the largest integer of the checker stands for it).
OSMID_MAX == 2147483647

WayIds == 1..MaxWay
RelIds == 1..MaxRel
NodeIds == 1..MaxNode

\* What the middle holds for an ID it does not know.
Missing == [missing |-> TRUE]

\* The four output tables (enum table_id: t_point, t_line, t_poly, t_roads).
t_point == "point"
t_line == "line"
t_poly == "poly"
t_roads == "roads"
\* m_tables[0..NUM_TABLES-1]
NUM_TABLES == 4
Tables == <<t_point, t_line, t_poly, t_roads>>
TableSet == {t_point, t_line, t_poly, t_roads}
WayTables == {t_line, t_poly, t_roads}

\* ---------------------------------------------------------- abstract inputs
\* Tag classes of a node: what filter_node_tags answers for them.
NodeTags == {"keep", "drop"}

\* Tag classes of a way: what filter_way_tags answers for them.
WayTags == {"drop", "line", "road", "poly"}

\* Node-list classes of a way, as the geometry builder sees them:
\*   ring  closed ring enclosing an area
\*   hole  closed ring that lies inside another ring of the same relation
\*   flat  closed ring of zero area
\*   open  open node list
\*   none  no node of the way could be resolved (count = 0)
Shapes == {"ring", "hole", "flat", "open", "none"}

\* Tag classes of a relation:
\*   notype    no type tag, or a type other than route/multipolygon/boundary
\*   drop      filter_rel_tags drops it
\*   route     type=route
\*   mp        type=multipolygon
\*   boundary  type=boundary
\*   mpb       type=multipolygon for which the transform (a user script) sets
\*             both make_polygon and make_boundary
RelTags == {"notype", "drop", "route", "mp", "boundary", "mpb"}

\* Member lists of a relation: sequences of way IDs (members of other types
\* are skipped by pgsql_process_relation before the bulk fetch).
MemberLists == {<<>>} \cup {<<w>> : w \in WayIds}
                 \cup {<<p[1], p[2]>> : p \in {q \in WayIds \X WayIds : q[1] < q[2]}}

\* The ways of the input: the pairs of tag class and node-list class on
\* which the emitter, the tag transform or the builder behave differently.
WayInputs ==
    {[tags |-> "drop", nodes |-> "ring"],
     [tags |-> "line", nodes |-> "open"],
     [tags |-> "road", nodes |-> "open"],
     [tags |-> "line", nodes |-> "ring"],
     [tags |-> "poly", nodes |-> "ring"],
     [tags |-> "poly", nodes |-> "hole"],
     [tags |-> "poly", nodes |-> "flat"],
     [tags |-> "poly", nodes |-> "open"],
     [tags |-> "poly", nodes |-> "none"]}

VARIABLES
    m_options,            \* [slim, droptemp, append]
    m_enable_way_area,    \* result of read_style_file
    rows,                 \* bag of rows of the four output tables
    ways_pending,         \* ways_pending_tracker
    ways_done,            \* ways_done_tracker
    rels_pending,         \* rels_pending_tracker
    mid_ways,             \* middle: way id -> [tags, nodes] or Missing
    mid_rels,             \* middle: relation id -> [tags, members] or Missing
    phase,                \* "ingest", "ways", "ways_end", "rels", "done"
    m_next_internal_id,   \* cursor of the callback object of the current pass
    copy,                 \* tables whose COPY is active
    pops,                 \* values the cursor has taken in this pass
    proc,                 \* IDs handed to the way/relation pipeline in this pass
    pend0,                \* content of the drained tracker when the pass began
    ups,                  \* upstream IDs received in this pass
    emitted,              \* bag of the rows written in this pass
    wrote,                \* rows written by the last operation
    dels,                 \* DELETEs [t, id, by, live] issued by the last operation
    lastOp,               \* the last operation and its arguments
    err,                  \* util::exit_nicely() was called
    builds,               \* calls of builder.build made by the last operation
    nops,                 \* number of ingest operations so far
    fin_options,          \* [parallel_indexing, enable_hstore_index,
                          \*  enable_hstore, tblsmain_index, hstore_columns]
    stop_pc,              \* position of stop(): "idle", "create", "join",
                          \*   "serial", "cleanup", "release", "returned"
    stop_i,               \* loop index i of stop()
    wpc,                  \* position of each call of pgsql_out_stop_one
    sql,                  \* statements executed on each table's connection
    conn,                 \* the table's connection is open (sql_conn # NULL)
    toucher,              \* the calls of pgsql_out_stop_one that used the table
    torn,                 \* tables torn down by cleanup()
    released,             \* export list deleted and expire reset
    style_file,           \* lines of the style file
    m_export_list,        \* entries [type, name, flags] added by read_style_file
    style_pc,             \* "start", "loaded" or "fatal"
    rolescan              \* the role matching of pgsql_process_relation:
                          \*   [pc, members, xid, xrole, j]

vars == <<m_options, m_enable_way_area, rows, ways_pending, ways_done,
          rels_pending, mid_ways, mid_rels, phase, m_next_internal_id,
          copy, pops, proc, pend0, ups, emitted, wrote, dels, lastOp, err, nops,
          builds,
          fin_options, stop_pc, stop_i, wpc, sql, conn, toucher, torn, released,
          style_file, m_export_list, style_pc, rolescan>>

\* The variables of the style loading.
stylevars == <<style_file, m_export_list, style_pc>>

\* The variables of stop() and of the finaliser.
finvars == <<fin_options, stop_pc, stop_i, wpc, sql, conn, toucher, torn, released>>

\* ------------------------------------------------------------- state record
\* The handlers are written as functions on a record of the fields they read
\* and change; an action takes the record of the current state, applies the
\* handler and installs the result.
Cur ==
    [rows |-> rows, wp |-> ways_pending, wd |-> ways_done, rp |-> rels_pending,
     mw |-> mid_ways, mr |-> mid_rels, next |-> m_next_internal_id,
     copy |-> copy, pops |-> pops,
     proc |-> proc, emitted |-> emitted, wrote |-> {}, dels |-> {}, err |-> err,
     builds |-> <<>>]

Install(s) ==
    /\ rows' = s.rows
    /\ ways_pending' = s.wp
    /\ ways_done' = s.wd
    /\ rels_pending' = s.rp
    /\ mid_ways' = s.mw
    /\ mid_rels' = s.mr
    /\ m_next_internal_id' = s.next
    /\ copy' = s.copy
    /\ pops' = s.pops
    /\ proc' = s.proc
    /\ emitted' = s.emitted
    /\ wrote' = s.wrote
    /\ dels' = s.dels
    /\ err' = s.err
    /\ builds' = s.builds

\* -------------------------------------------------------------- output table
\* table_t::write_node / write_way: one row appended through COPY.
\*   wkt       geometry type of the row (the WKT prefix)
\*   seg       index of the geometry within the build that produced it
\*   way_area  the tags written carry a way_area value
\*   area      area the builder computed for this geometry
\*   by        pipeline that wrote the row
Row(t, id, wkt, seg, way_area, area, by) ==
    [t |-> t, id |-> id, wkt |-> wkt, seg |-> seg, way_area |-> way_area,
     area |-> area, by |-> by]

write_row(s, r) ==
    [s EXCEPT !.rows = @ (+) SetToBag({r}),
              !.copy = @ \cup {r.t},
              !.wrote = @ \cup {r},
              !.emitted = IF phase \in {"ways", "rels"} THEN @ (+) SetToBag({r}) ELSE @]

\* Rows of table t with the given osm_id, with multiplicity.
RowsOf(b, t, id) == {r \in BagToSet(b) : r.t = t /\ r.id = id}

RECURSIVE SumCopies(_, _)
SumCopies(b, S) ==
    IF S = {} THEN 0
    ELSE LET r == CHOOSE x \in S : TRUE
         IN CopiesIn(r, b) + SumCopies(b, S \ {r})

CountRows(b, t, id) == SumCopies(b, RowsOf(b, t, id))

\* The bag b without the rows of table t that have the given osm_id.
WithoutRows(b, t, id) ==
    [r \in {x \in BagToSet(b) : ~(x.t = t /\ x.id = id)} |-> b[r]]

\* table_t::pgsql_pause_copy: the active COPY of the table is ended.
pgsql_pause_copy(s, t) == [s EXCEPT !.copy = @ \ {t}]

\* table_t::delete_row: DELETE FROM table WHERE osm_id = id.  by names the
\* delete helper that issued it, live tells whether the COPY of the table
\* was active when the caller issued the DELETE.
delete_row(s, t, id, by) ==
    [s EXCEPT !.rows = WithoutRows(@, t, id),
              !.dels = @ \cup {[t |-> t, id |-> id, by |-> by,
                                 live |-> t \in s.copy]}]

\* expire_tiles::from_db: expires the tiles of the rows the table holds for
\* the ID and returns how many there were.
from_db(s, t, id) == CountRows(s.rows, t, id)

\* ------------------------------------------------------------- tag transform
\* tagtransform::filter_node_tags: nonzero means drop.
filter_node_tags(tags) == IF tags = "keep" THEN 0 ELSE 1

\* tagtransform::filter_way_tags: the return value (nonzero means drop) and
\* the out-parameters polygon and roads.
filter_way_tags(tags) ==
    [filter |-> IF tags = "drop" THEN 1 ELSE 0,
     polygon |-> IF tags = "poly" THEN 1 ELSE 0,
     roads |-> IF tags = "road" THEN 1 ELSE 0]

\* tagtransform::filter_rel_tags: nonzero means drop.
filter_rel_tags(tags) == IF tags = "drop" THEN 1 ELSE 0

\* tagtransform::filter_rel_member_tags: the return value (nonzero means
\* drop) and the out-parameters.  A member way is superseded when the
\* relation is assembled as a multipolygon and the member's polygon tags are
\* subsumed by the relation's.
filter_rel_member_tags(rel_tags, xtags) ==
    [filter |-> IF rel_tags \in {"route", "mp", "boundary", "mpb"} THEN 0 ELSE 1,
     make_polygon |-> IF rel_tags \in {"mp", "mpb"} THEN 1 ELSE 0,
     make_boundary |-> IF rel_tags \in {"boundary", "mpb"} THEN 1 ELSE 0,
     roads |-> IF rel_tags = "boundary" THEN 1 ELSE 0,
     members_superseeded |->
         [i \in DOMAIN xtags |->
             IF rel_tags \in {"mp", "mpb"} /\ xtags[i] = "poly" THEN 1 ELSE 0]]

\* ---------------------------------------------------------- geometry builder
Geom(wkt, area) == [wkt |-> wkt, area |-> area]

IsPolygonWkt(wkt) == wkt \in {"POLYGON", "MULTIPOLYGON"}

\* Number of nodes the middle resolves for a node list (zero or not).
NodeCount(nodes) == IF nodes = "none" THEN 0 ELSE 2

\* build_geometry get_wkt_split: the geometries of one way.  A closed ring
\* asked for as a polygon gives one polygon; everything else with nodes gives
\* a linestring.
get_wkt_split(nodes, polygon) ==
    CASE nodes = "none" -> <<>>
      [] nodes \in {"ring", "hole"} /\ polygon # 0 -> <<Geom("POLYGON", 1)>>
      [] nodes = "flat" /\ polygon # 0 -> <<Geom("POLYGON", 0)>>
      [] OTHER -> <<Geom("LINESTRING", 0)>>

RECURSIVE build_polygons(_, _, _)
build_polygons(xnodes, i, has_ring) ==
    IF i > Len(xnodes) THEN <<>>
    ELSE LET rest == build_polygons(xnodes, i + 1, has_ring)
         IN CASE xnodes[i] = "ring" -> <<Geom("POLYGON", 1)>> \o rest
              [] xnodes[i] = "hole" /\ ~has_ring -> <<Geom("POLYGON", 1)>> \o rest
              [] xnodes[i] = "flat" -> <<Geom("POLYGON", 0)>> \o rest
              [] xnodes[i] = "open" -> <<Geom("LINESTRING", 0)>> \o rest
              [] OTHER -> rest

RECURSIVE build_lines(_, _)
build_lines(xnodes, i) ==
    IF i > Len(xnodes) THEN <<>>
    ELSE (IF xnodes[i] = "none" THEN <<>> ELSE <<Geom("LINESTRING", 0)>>)
         \o build_lines(xnodes, i + 1)

\* build_geometry build: the geometries of a relation's member ways.  With
\* make_polygon the closed rings are assembled into polygons (a ring lying
\* inside another becomes a hole of it, a member that closes no ring comes
\* back as a linestring), otherwise the members are returned as linestrings.
build(xnodes, make_polygon) ==
    IF make_polygon # 0
    THEN build_polygons(xnodes, 1, \E i \in DOMAIN xnodes : xnodes[i] = "ring")
    ELSE build_lines(xnodes, 1)

\* ------------------------------------------------------------------ middle
\* middle_query_t::relations_using_way
relations_using_way(s, id) ==
    {r \in RelIds : s.mr[r] # Missing
                    /\ \E i \in DOMAIN s.mr[r].members : s.mr[r].members[i] = id}

RECURSIVE SelectFound(_, _)
SelectFound(mw, ids) ==
    IF ids = <<>> THEN <<>>
    ELSE (IF mw[Head(ids)] # Missing THEN <<Head(ids)>> ELSE <<>>)
         \o SelectFound(mw, Tail(ids))

\* middle_query_t::ways_get_list: the requested ways the middle holds (it may
\* return fewer than requested).
ways_get_list(s, xid2) == SelectFound(s.mw, xid2)

\* -------------------------------------------------------------- ID tracker
\* id_tracker::pop_mark on a set of marked IDs: the smallest one, or
\* OSMID_MAX when none is marked.
Lowest(S) == IF S = {} THEN OSMID_MAX ELSE CHOOSE x \in S : \A y \in S : x <= y

\* ----------------------------------------------------------------- emitter
\* util::exit_nicely(): the process ends.
exit_nicely(s) == [s EXCEPT !.err = TRUE]

pgsql_out_node(s, id, tags) ==
    IF filter_node_tags(tags) # 0 THEN s
    ELSE write_row(s, Row(t_point, id, "POINT", 1, FALSE, 0, "node"))

node_add(s, id, tags) == pgsql_out_node(s, id, tags)

\* node_delete that issues no DELETE.
node_delete_keeps_row(s, osm_id) ==
    IF ~m_options.slim THEN exit_nicely(s) ELSE s

\* node_delete deleting the ID from the tables of the ways as well.
node_delete_any_table(s, osm_id) ==
    IF ~m_options.slim THEN exit_nicely(s)
    ELSE LET s1 == pgsql_pause_copy(
                       pgsql_pause_copy(
                           pgsql_pause_copy(pgsql_pause_copy(s, t_roads), t_line),
                           t_poly),
                       t_point)
             s2 == IF from_db(s1, t_point, osm_id) # 0
                   THEN delete_row(s1, t_point, osm_id, "node")
                   ELSE s1
             s3 == delete_row(s2, t_roads, osm_id, "node")
             s4 == delete_row(s3, t_line, osm_id, "node")
         IN delete_row(s4, t_poly, osm_id, "node")

node_delete(s, osm_id) ==
    IF ~m_options.slim THEN exit_nicely(s)
    ELSE LET s1 == pgsql_pause_copy(s, t_point)
         IN IF from_db(s1, t_point, osm_id) # 0
            THEN delete_row(s1, t_point, osm_id, "node")
            ELSE s1

node_modify(s, osm_id, tags) ==
    IF ~m_options.slim THEN exit_nicely(s)
    ELSE node_add(node_delete(s, osm_id), osm_id, tags)

\* The three pgsql_pause_copy calls that open both delete helpers.
pause_way_tables(s) ==
    pgsql_pause_copy(pgsql_pause_copy(pgsql_pause_copy(s, t_roads), t_line), t_poly)

\* pgsql_delete_way_from_output that leaves the COPY of the line table
\* running.
pgsql_delete_way_no_pause(s, osm_id) ==
    IF ~m_options.slim THEN s
    ELSE IF m_options.droptemp THEN s
    ELSE LET s0 == pgsql_pause_copy(pgsql_pause_copy(s, t_roads), t_poly)
             s1 == delete_row(s0, t_roads, osm_id, "way")
             s2 == IF from_db(s1, t_line, osm_id) # 0
                   THEN delete_row(s1, t_line, osm_id, "way") ELSE s1
         IN IF from_db(s2, t_poly, osm_id) # 0
            THEN delete_row(s2, t_poly, osm_id, "way") ELSE s2

\* pgsql_delete_way_from_output without the DELETE on the roads table.
pgsql_delete_way_keeps_roads(s, osm_id) ==
    IF ~m_options.slim THEN s
    ELSE IF m_options.droptemp THEN s
    ELSE LET s1 == pause_way_tables(s)
             s2 == IF from_db(s1, t_line, osm_id) # 0
                   THEN delete_row(s1, t_line, osm_id, "way") ELSE s1
         IN IF from_db(s2, t_poly, osm_id) # 0
            THEN delete_row(s2, t_poly, osm_id, "way") ELSE s2

pgsql_delete_way_from_output(s, osm_id) ==
    IF ~m_options.slim THEN s
    ELSE IF m_options.droptemp THEN s
    ELSE LET s1 == delete_row(pause_way_tables(s), t_roads, osm_id, "way")
             s2 == IF from_db(s1, t_line, osm_id) # 0
                   THEN delete_row(s1, t_line, osm_id, "way") ELSE s1
         IN IF from_db(s2, t_poly, osm_id) # 0
            THEN delete_row(s2, t_poly, osm_id, "way") ELSE s2

\* pgsql_delete_relation_from_output deleting by the relation's own ID.
pgsql_delete_relation_unsigned(s, osm_id) ==
    LET s1 == delete_row(pause_way_tables(s), t_roads, osm_id, "rel")
        s2 == IF from_db(s1, t_line, osm_id) # 0
              THEN delete_row(s1, t_line, osm_id, "rel") ELSE s1
    IN IF from_db(s2, t_poly, osm_id) # 0
       THEN delete_row(s2, t_poly, osm_id, "rel") ELSE s2

pgsql_delete_relation_from_output(s, osm_id) ==
    LET s1 == delete_row(pause_way_tables(s), t_roads, -osm_id, "rel")
        s2 == IF from_db(s1, t_line, -osm_id) # 0
              THEN delete_row(s1, t_line, -osm_id, "rel") ELSE s1
    IN IF from_db(s2, t_poly, -osm_id) # 0
       THEN delete_row(s2, t_poly, -osm_id, "rel") ELSE s2

\* The loop of pgsql_out_way choosing the table by the polygon flag of the
\* tag filter instead of the WKT prefix.
RECURSIVE out_way_wkts_by_flag(_, _, _, _, _, _)
out_way_wkts_by_flag(s, id, f, wkts, i, way_area) ==
    IF i > Len(wkts) THEN s
    ELSE LET g == wkts[i]
         IN IF f.polygon # 0
            THEN LET wa == way_area \/ (g.area > 0 /\ m_enable_way_area)
                     s1 == write_row(s, Row(t_poly, id, g.wkt, i, wa, g.area, "way"))
                 IN out_way_wkts_by_flag(s1, id, f, wkts, i + 1, wa)
            ELSE LET s1 == write_row(s, Row(t_line, id, g.wkt, i, way_area, g.area, "way"))
                     s2 == IF f.roads # 0
                           THEN write_row(s1, Row(t_roads, id, g.wkt, i, way_area, g.area, "way"))
                           ELSE s1
                 IN out_way_wkts_by_flag(s2, id, f, wkts, i + 1, way_area)

\* The loop of pgsql_out_way over the geometries i..wkt_size of the build.
\* f holds the out-parameters polygon and roads of filter_way_tags.
\* way_area tells whether the tag list holds a way_area item: addItem puts
\* it into the caller's list, where it stays for the geometries that follow.
RECURSIVE out_way_wkts(_, _, _, _, _, _)
out_way_wkts(s, id, f, wkts, i, way_area) ==
    IF i > Len(wkts) THEN s
    ELSE LET g == wkts[i]
         IN IF IsPolygonWkt(g.wkt)
            THEN LET wa == way_area \/ (g.area > 0 /\ m_enable_way_area)
                     s1 == write_row(s, Row(t_poly, id, g.wkt, i, wa, g.area, "way"))
                 IN out_way_wkts(s1, id, f, wkts, i + 1, wa)
            ELSE LET s1 == write_row(s, Row(t_line, id, g.wkt, i, way_area, g.area, "way"))
                     s2 == IF f.roads # 0
                           THEN write_row(s1, Row(t_roads, id, g.wkt, i, way_area, g.area, "way"))
                           ELSE s1
                 IN out_way_wkts(s2, id, f, wkts, i + 1, way_area)

\* pgsql_out_way applying the tag filter before the delete and the marking
\* of the relations.
pgsql_out_way_filter_first(s, id, tags, nodes, exists) ==
    LET f == filter_way_tags(tags)
        s1 == IF exists
              THEN LET d == pgsql_delete_way_from_output(s, id)
                   IN [d EXCEPT !.rp = @ \cup relations_using_way(d, id)]
              ELSE s
    IN IF f.filter # 0 THEN s
       ELSE out_way_wkts(s1, id, f, get_wkt_split(nodes, f.polygon), 1, FALSE)

pgsql_out_way(s, id, tags, nodes, exists) ==
    LET s1 == IF exists
              THEN LET d == pgsql_delete_way_from_output(s, id)
                   IN [d EXCEPT !.rp = @ \cup relations_using_way(d, id)]
              ELSE s
        f == filter_way_tags(tags)
    IN IF f.filter # 0 THEN s1
       ELSE out_way_wkts(s1, id, f, get_wkt_split(nodes, f.polygon), 1, FALSE)

\* way_add that defers every kept way, polygon or not.
way_add_defers_all(s, id, nodes, tags) ==
    LET f == filter_way_tags(tags)
    IN IF f.filter = 0 THEN [s EXCEPT !.wp = @ \cup {id}] ELSE s

way_add(s, id, nodes, tags) ==
    LET f == filter_way_tags(tags)
        s1 == IF f.filter = 0 /\ f.polygon # 0
              THEN [s EXCEPT !.wp = @ \cup {id}] ELSE s
    IN IF f.polygon = 0 /\ f.filter = 0
       THEN pgsql_out_way(s1, id, tags, nodes, FALSE)
       ELSE s1

\* way_delete without the slim check.
way_delete_unguarded(s, osm_id) == pgsql_delete_way_from_output(s, osm_id)

way_delete(s, osm_id) ==
    IF ~m_options.slim THEN exit_nicely(s)
    ELSE pgsql_delete_way_from_output(s, osm_id)

way_modify(s, osm_id, nodes, tags) ==
    IF ~m_options.slim THEN exit_nicely(s)
    ELSE way_add(way_delete(s, osm_id), osm_id, nodes, tags)

\* The first loop of pgsql_out_relation writing the relation's own ID.
RECURSIVE out_rel_wkts_unsigned(_, _, _, _, _, _)
out_rel_wkts_unsigned(s, id, roads, wkts, i, way_area) ==
    IF i > Len(wkts) THEN [s |-> s, way_area |-> way_area]
    ELSE LET g == wkts[i]
             t == IF IsPolygonWkt(g.wkt) THEN t_poly ELSE t_line
             s1 == write_row(s, Row(t, id, g.wkt, i, way_area, g.area, "rel"))
         IN out_rel_wkts_unsigned(s1, id, roads, wkts, i + 1, way_area)

\* The first loop of pgsql_out_relation over the geometries of the build.
RECURSIVE out_rel_wkts(_, _, _, _, _, _)
out_rel_wkts(s, id, roads, wkts, i, way_area) ==
    IF i > Len(wkts) THEN [s |-> s, way_area |-> way_area]
    ELSE LET g == wkts[i]
         IN IF IsPolygonWkt(g.wkt)
            THEN LET wa == way_area \/ (g.area > 0 /\ m_enable_way_area)
                     s1 == write_row(s, Row(t_poly, -id, g.wkt, i, wa, g.area, "rel"))
                 IN out_rel_wkts(s1, id, roads, wkts, i + 1, wa)
            ELSE LET s1 == write_row(s, Row(t_line, -id, g.wkt, i, way_area, g.area, "rel"))
                     s2 == IF roads # 0
                           THEN write_row(s1, Row(t_roads, -id, g.wkt, i, way_area, g.area, "rel"))
                           ELSE s1
                 IN out_rel_wkts(s2, id, roads, wkts, i + 1, way_area)

\* The loop over the members: for (i=0; xcount[i]; i++), which ends at the
\* first member without nodes (xcount[count2] = 0 is the terminator).
RECURSIVE mark_superseeded(_, _, _, _, _)
mark_superseeded(s, xid, xcount, superseeded, i) ==
    IF i > Len(xid) \/ xcount[i] = 0 THEN s
    ELSE LET s1 == IF superseeded[i] # 0
                   THEN pgsql_delete_way_from_output(
                            [s EXCEPT !.wd = @ \cup {xid[i]}], xid[i])
                   ELSE s
         IN mark_superseeded(s1, xid, xcount, superseeded, i + 1)

\* The second loop of pgsql_out_relation writing the linestrings of the
\* second build as well.
RECURSIVE out_boundary_wkts_all(_, _, _, _, _)
out_boundary_wkts_all(s, id, wkts, i, way_area) ==
    IF i > Len(wkts) THEN s
    ELSE LET g == wkts[i]
             t == IF IsPolygonWkt(g.wkt) THEN t_poly ELSE t_line
             s1 == write_row(s, Row(t, -id, g.wkt, i, way_area, g.area, "rel"))
         IN out_boundary_wkts_all(s1, id, wkts, i + 1, way_area)

\* The second loop of pgsql_out_relation (make_boundary): only the polygons
\* of the second build are written.
RECURSIVE out_boundary_wkts(_, _, _, _, _)
out_boundary_wkts(s, id, wkts, i, way_area) ==
    IF i > Len(wkts) THEN s
    ELSE LET g == wkts[i]
         IN IF IsPolygonWkt(g.wkt)
            THEN LET wa == way_area \/ (g.area > 0 /\ m_enable_way_area)
                     s1 == write_row(s, Row(t_poly, -id, g.wkt, i, wa, g.area, "rel"))
                 IN out_boundary_wkts(s1, id, wkts, i + 1, wa)
            ELSE out_boundary_wkts(s, id, wkts, i + 1, way_area)

\* Records one call builder.build(id, xnodes, xcount, make_polygon, ...)
\* and the number of geometries it returned.
BuildCall(id, make_polygon, wkt_size) ==
    [id |-> id, make_polygon |-> make_polygon, wkt_size |-> wkt_size]

built(s, id, make_polygon, wkts) ==
    [s EXCEPT !.builds = Append(@, BuildCall(id, make_polygon, Len(wkts)))]

pgsql_out_relation(s, id, rel_tags, xnodes, xtags, xid) ==
    IF Len(xid) = 0 THEN s
    ELSE LET f == filter_rel_member_tags(rel_tags, xtags)
             xcount == [i \in DOMAIN xnodes |-> NodeCount(xnodes[i])]
             wkts == build(xnodes, f.make_polygon)
             s0 == built(s, id, f.make_polygon, wkts)
         IN IF f.filter # 0 THEN s
            ELSE IF Len(wkts) = 0 THEN s0
            ELSE LET o == out_rel_wkts(s0, id, f.roads, wkts, 1, FALSE)
                     s2 == IF f.make_polygon # 0
                           THEN mark_superseeded(o.s, xid, xcount, f.members_superseeded, 1)
                           ELSE o.s
                     wkts2 == build(xnodes, 1)
                 IN IF f.make_boundary # 0
                    THEN out_boundary_wkts(built(s2, id, 1, wkts2), id, wkts2, 1,
                                           o.way_area)
                    ELSE s2

pgsql_process_relation(s, id, members, tags, exists) ==
    LET s1 == IF exists THEN pgsql_delete_relation_from_output(s, id) ELSE s
    IN IF filter_rel_tags(tags) # 0 THEN s1
       ELSE LET xid == ways_get_list(s1, members)
                xtags == [i \in DOMAIN xid |-> s1.mw[xid[i]].tags]
                xnodes == [i \in DOMAIN xid |-> s1.mw[xid[i]].nodes]
            IN pgsql_out_relation(s1, id, tags, xnodes, xtags, xid)

relation_add(s, id, members, tags) ==
    IF tags = "notype" THEN s
    ELSE pgsql_process_relation(s, id, members, tags, FALSE)

relation_delete(s, osm_id) ==
    IF ~m_options.slim THEN exit_nicely(s)
    ELSE pgsql_delete_relation_from_output(s, osm_id)

relation_modify(s, osm_id, members, tags) ==
    IF ~m_options.slim THEN exit_nicely(s)
    ELSE relation_add(relation_delete(s, osm_id), osm_id, members, tags)

\* ------------------------------------------------------------ deferred passes
\* id_tracker::pop_mark on ways_pending_tracker, stored into the cursor.
\* pop_mark taking the highest marked way instead of the lowest.
pop_way_highest(s) ==
    LET top == IF s.wp = {} THEN OSMID_MAX
               ELSE CHOOSE x \in s.wp : \A y \in s.wp : y <= x
    IN [s EXCEPT !.next = top, !.wp = @ \ {top}, !.pops = Append(@, top)]

pop_way(s) ==
    [s EXCEPT !.next = Lowest(s.wp), !.wp = @ \ {Lowest(s.wp)},
              !.pops = Append(@, Lowest(s.wp))]

\* id_tracker::pop_mark on rels_pending_tracker, stored into the cursor.
pop_rel(s) ==
    [s EXCEPT !.next = Lowest(s.rp), !.rp = @ \ {Lowest(s.rp)},
              !.pops = Append(@, Lowest(s.rp))]

\* Records that the ID is handed to the pipeline of the pass.
Handed(s, id) == [s EXCEPT !.proc = Append(@, id)]

\* way_cb_func::run_internal_until without the look-up in ways_done.
RECURSIVE way_run_internal_until_unchecked(_, _, _)
way_run_internal_until_unchecked(s, id, exists) ==
    IF ~(s.next < id) THEN s
    ELSE LET w == s.mw[s.next]
             s1 == IF w # Missing
                   THEN pgsql_out_way(Handed(s, s.next), s.next, w.tags, w.nodes, exists)
                   ELSE s
         IN way_run_internal_until_unchecked(pop_way(s1), id, exists)

\* way_cb_func::run_internal_until that returns at a pending way the middle
\* does not hold.
RECURSIVE way_run_internal_until_stops(_, _, _)
way_run_internal_until_stops(s, id, exists) ==
    IF ~(s.next < id) THEN s
    ELSE LET w == s.mw[s.next]
         IN IF w = Missing THEN s
            ELSE LET s1 == IF s.next \notin s.wd
                           THEN pgsql_out_way(Handed(s, s.next), s.next, w.tags,
                                              w.nodes, exists)
                           ELSE s
                 IN way_run_internal_until_stops(pop_way(s1), id, exists)

\* way_cb_func::run_internal_until
RECURSIVE way_run_internal_until(_, _, _)
way_run_internal_until(s, id, exists) ==
    IF ~(s.next < id) THEN s
    ELSE LET w == s.mw[s.next]
             s1 == IF w # Missing /\ s.next \notin s.wd
                   THEN pgsql_out_way(Handed(s, s.next), s.next, w.tags, w.nodes, exists)
                   ELSE s
         IN way_run_internal_until(pop_way(s1), id, exists)

\* way_cb_func::operator() without the advance of the cursor past an
\* upstream ID that is also pending.
way_cb_keeps_cursor(s, id, tags, nodes, exists) ==
    LET s1 == IF s.next < id THEN way_run_internal_until(s, id, exists) ELSE s
    IN IF id \in s1.wd THEN s1
       ELSE pgsql_out_way(Handed(s1, id), id, tags, nodes, exists)

\* way_cb_func::operator()
way_cb(s, id, tags, nodes, exists) ==
    LET s1 == IF s.next < id THEN way_run_internal_until(s, id, exists) ELSE s
        s2 == IF s1.next = id THEN pop_way(s1) ELSE s1
    IN IF id \in s2.wd THEN s2
       ELSE pgsql_out_way(Handed(s2, id), id, tags, nodes, exists)

\* way_cb_func::finish that returns without draining.
way_finish_idle(s, exists) == s

\* way_cb_func::finish
way_finish(s, exists) == way_run_internal_until(s, OSMID_MAX, exists)

\* rel_cb_func::run_internal_until
RECURSIVE rel_run_internal_until(_, _, _)
rel_run_internal_until(s, id, exists) ==
    IF ~(s.next < id) THEN s
    ELSE LET r == s.mr[s.next]
             s1 == IF r # Missing
                   THEN pgsql_process_relation(Handed(s, s.next), s.next, r.members,
                                               r.tags, exists)
                   ELSE s
         IN rel_run_internal_until(pop_rel(s1), id, exists)

\* rel_cb_func::operator()
rel_cb(s, id, members, tags, exists) ==
    LET s1 == IF s.next < id THEN rel_run_internal_until(s, id, exists) ELSE s
        s2 == IF s1.next = id THEN pop_rel(s1) ELSE s1
    IN pgsql_process_relation(Handed(s2, id), id, members, tags, exists)

\* rel_cb_func::finish
rel_finish(s, exists) == rel_run_internal_until(s, OSMID_MAX, exists)

TypeOK ==
    /\ m_options \in [slim : BOOLEAN, droptemp : BOOLEAN, append : BOOLEAN]
    /\ m_enable_way_area \in BOOLEAN
    /\ IsABag(rows)
    /\ ways_pending \subseteq WayIds
    /\ ways_done \subseteq WayIds
    /\ rels_pending \subseteq RelIds
    /\ phase \in {"ingest", "ways", "ways_end", "rels", "done"}
    /\ copy \subseteq {t_point, t_line, t_poly, t_roads}
    /\ err \in BOOLEAN
    /\ nops \in 0..MaxOps

\* ===================================================== roles of the members
\* The role matching of pgsql_process_relation, on the member array as the
\* parser passes it: members of any type, each with an ID and a role.
MemberTypes == {"node", "way"}
Roles == {"outer", "inner"}
Members == [type : MemberTypes, id : WayIds, role : Roles]
MemberArrays == UNION {[1..n -> Members] : n \in 0..MaxMembers}

\* The first loop: the IDs of the members of type way, in input order.
RECURSIVE way_member_ids(_)
way_member_ids(members) ==
    IF members = <<>> THEN <<>>
    ELSE (IF Head(members).type = "way" THEN <<Head(members).id>> ELSE <<>>)
         \o way_member_ids(Tail(members))

\* What ways_get_list may return for the requested IDs: any of them, each
\* requested entry at most once, in any order.
FetchResults(xid2) ==
    LET Picks == UNION {[1..n -> DOMAIN xid2] : n \in 0..Len(xid2)}
    IN {[i \in DOMAIN q |-> xid2[q[i]]] :
            q \in {p \in Picks : \A a, b \in DOMAIN p : a # b => p[a] # p[b]}}

\* for (j = i; j < member_count; j++) if (members[j].id == xid[i]) break;
\* the value of j after the loop (member_count + 1 here when no member from
\* i on has the ID; indices start at 1).
scan_j(members, xid, i) ==
    LET J == {j \in i..Len(members) : members[j].id = xid[i]}
    IN IF J = {} THEN Len(members) + 1
       ELSE CHOOSE j \in J : \A k \in J : j <= k

\* What members[member_count].role may read: past the end of the caller's
\* array.
BeyondArray == Roles \cup {"garbage"}

\* xrole[i] = members[j].role for the ways 1..count2 of the fetch; beyond
\* gives for each way what a read past the array returns.
match_roles(members, xid, beyond) ==
    [i \in DOMAIN xid |->
        LET j == scan_j(members, xid, i)
        IN IF j <= Len(members) THEN members[j].role ELSE beyond[i]]

\* No relation is being matched.
RoleIdle ==
    rolescan = [pc |-> "idle", members |-> <<>>, xid |-> <<>>, xrole |-> <<>>,
                j |-> <<>>]

\* =========================================================== style file
\* One line of the style file, after the comment is cut off:
\*   fields   number of fields sscanf converts (0 for a blank line, at most 4)
\*   osmtype  first field
\*   name     second field: a plain tag key, a key with a wildcard, way_area
\*   flags    tokens of the fourth field (none when fields < 4)
StyleLine(fields, osmtype, name, flags) ==
    [fields |-> fields, osmtype |-> osmtype, name |-> name, flags |-> flags]

\* tagflags[]
KnownFlags == {"polygon", "linear", "nocache", "delete", "phstore"}
FLAG_DELETE == {"delete"}

StyleLines ==
    {StyleLine(0, "", "", <<>>),
     StyleLine(2, "way", "plain", <<>>),
     StyleLine(3, "node", "plain", <<>>),
     StyleLine(3, "way", "wild", <<>>),
     StyleLine(4, "way", "wild", <<"delete">>),
     StyleLine(4, "node,way", "wild", <<"delete", "polygon">>),
     StyleLine(4, "way", "plain", <<"polygon">>),
     StyleLine(4, "way", "way_area", <<"delete">>),
     StyleLine(4, "way", "way_area", <<"delete", "polygon">>),
     StyleLine(4, "way", "plain", <<"bogus", "linear">>),
     StyleLine(4, "other", "plain", <<"linear">>),
     StyleLine(4, "node", "wild", <<"bogus">>)}

StyleFiles == UNION {[1..n -> StyleLines] : n \in 0..MaxLines}

\* What the buffer char flags[128] may hold before the first sscanf writes
\* it: it is not initialised.
FlagBuffers == {<<>>, <<"delete">>, <<"polygon">>, <<"bogus">>}

\* The bit mask the strtok loop builds from the tokens; unknown tokens are
\* ignored.
flag_mask(tokens) == {tokens[k] : k \in DOMAIN tokens} \cap KnownFlags

\* strtok ends the first token with a NUL inside the buffer: read as a
\* string again, the buffer holds the first token only.
after_strtok(tokens) == IF tokens = <<>> THEN <<>> ELSE <<tokens[1]>>

\* The loop of read_style_file from line k on.  st holds exlist, the flags
\* buffer, num_read, enable_way_area and whether exit_nicely was called.
RECURSIVE style_loop(_, _, _)
style_loop(file, k, st) ==
    IF st.err \/ k > Len(file) THEN st
    ELSE LET l == file[k]
             \* sscanf leaves flags as it was when it converts 3 fields
             tokens == IF l.fields = 4 THEN l.flags ELSE st.flags
             temp == [name |-> l.name, flags |-> flag_mask(tokens), line |-> k]
             node == IF l.osmtype \in {"node", "node,way"}
                     THEN <<[type |-> "node"] @@ temp>> ELSE <<>>
             way == IF l.osmtype \in {"way", "node,way"}
                    THEN <<[type |-> "way"] @@ temp>> ELSE <<>>
         IN IF l.fields <= 0 THEN style_loop(file, k + 1, st)
            ELSE IF l.fields < 3 THEN [st EXCEPT !.err = TRUE]
            ELSE IF temp.flags # FLAG_DELETE /\ l.name = "wild"
                 THEN [st EXCEPT !.err = TRUE, !.flags = after_strtok(tokens)]
            ELSE IF node \o way = <<>>
                 THEN [st EXCEPT !.err = TRUE, !.flags = after_strtok(tokens)]
            ELSE style_loop(file, k + 1,
                    [st EXCEPT !.exlist = @ \o node \o way,
                               !.flags = after_strtok(tokens),
                               !.num_read = @ + 1,
                               !.enable_way_area =
                                   IF l.name = "way_area" /\ temp.flags = FLAG_DELETE
                                   THEN FALSE ELSE @])

\* read_style_file on a file that can be opened; uninit is what the flags
\* buffer holds at entry.
read_style_file(file, uninit) ==
    LET st == style_loop(file, 1,
                  [exlist |-> <<>>, flags |-> uninit, num_read |-> 0,
                   enable_way_area |-> TRUE, err |-> FALSE])
    IN IF ~st.err /\ st.num_read = 0 THEN [st EXCEPT !.err = TRUE] ELSE st

\* The style the emitter runs with: one tag for ways, and way_area deleted
\* when enable_way_area is off.
LoadedStyle(enable_way_area) ==
    <<StyleLine(4, "way", "plain", <<"polygon">>)>>
    \o (IF enable_way_area THEN <<>>
        ELSE <<StyleLine(4, "way", "way_area", <<"delete">>)>>)

StyleDone ==
    /\ style_file = LoadedStyle(m_enable_way_area)
    /\ m_export_list = read_style_file(style_file, <<>>).exlist
    /\ style_pc = "loaded"

\* What an earlier slim import of one closed polygon way has left behind:
\* its polygon row, and the way in the middle.
PriorWay == [tags |-> "poly", nodes |-> "ring"]
PriorRows ==
    SetToBag({Row(t_poly, 1, "POLYGON", 1, m_enable_way_area, 1, "way")})

\* The state after start(): the options are set, the trackers are empty.  A
\* first import starts on empty tables and an empty middle; an append run on
\* a slim database may start on what an earlier import has left.
EmitterInit(prior) ==
    /\ rows = IF prior THEN PriorRows ELSE EmptyBag
    /\ mid_ways = [w \in WayIds |-> IF prior /\ w = 1 THEN PriorWay ELSE Missing]
    /\ ways_pending = {}
    /\ ways_done = {}
    /\ rels_pending = {}
    /\ mid_rels = [r \in RelIds |-> Missing]
    /\ phase = "ingest"
    /\ m_next_internal_id = OSMID_MAX
    /\ copy = {t_point, t_line, t_poly, t_roads}
    /\ pops = <<>>
    /\ proc = <<>>
    /\ pend0 = {}
    /\ ups = {}
    /\ emitted = EmptyBag
    /\ wrote = {}
    /\ dels = {}
    /\ lastOp = [op |-> "start", id |-> 0]
    /\ err = FALSE
    /\ builds = <<>>
    /\ nops = 0

\* stop() has not been called: every table has its connection, nothing has
\* been executed on it for the finalisation.
FinIdle ==
    /\ stop_pc = "idle"
    /\ stop_i = 1
    /\ wpc = [i \in 1..NUM_TABLES |-> "none"]
    /\ sql = [t \in TableSet |-> <<>>]
    /\ conn = [t \in TableSet |-> TRUE]
    /\ toucher = [t \in TableSet |-> {}]
    /\ torn = {}
    /\ released = FALSE

\* The options of the finalisation, which the emitter does not read.
FinOptions ==
    [parallel_indexing : BOOLEAN, enable_hstore_index : BOOLEAN,
     enable_hstore : BOOLEAN, tblsmain_index : BOOLEAN,
     hstore_columns : 0..MaxHstoreCols]

Init ==
    /\ m_options \in [slim : BOOLEAN, droptemp : BOOLEAN, append : BOOLEAN]
    /\ m_enable_way_area \in BOOLEAN
    /\ \E prior \in BOOLEAN :
          /\ prior => m_options.slim /\ m_options.append
          /\ EmitterInit(prior)
    /\ fin_options = [parallel_indexing |-> FALSE, enable_hstore_index |-> FALSE,
                      enable_hstore |-> FALSE, tblsmain_index |-> FALSE,
                      hstore_columns |-> 0]
    /\ FinIdle
    /\ StyleDone
    /\ RoleIdle

\* nops counts the add and delete handlers run; a modify runs one of each.
Ingest(cost) == phase = "ingest" /\ ~err /\ nops + cost <= MaxOps

\* An ingest operation leaves the pass bookkeeping alone.
IngestFrame(cost) ==
    /\ nops' = nops + cost
    /\ UNCHANGED <<m_options, m_enable_way_area, phase, pend0, ups>>
    /\ UNCHANGED finvars
    /\ UNCHANGED stylevars
    /\ UNCHANGED rolescan

\* The caller stores the object in the middle before it calls the output; a
\* fatal exit ends the process with the middle as it was.
Outcome(s) == IF s.err THEN exit_nicely(Cur) ELSE s

NodeAdd ==
    /\ Ingest(1)
    /\ \E id \in NodeIds, tags \in NodeTags :
          /\ Install(node_add(Cur, id, tags))
          /\ lastOp' = [op |-> "node_add", id |-> id, tags |-> tags]
    /\ IngestFrame(1)

NodeDelete ==
    /\ Ingest(1)
    /\ \E id \in NodeIds :
          /\ Install(node_delete(Cur, id))
          /\ lastOp' = [op |-> "node_delete", id |-> id]
    /\ IngestFrame(1)

NodeModify ==
    /\ Ingest(2)
    /\ \E id \in NodeIds, tags \in NodeTags :
          /\ Install(node_modify(Cur, id, tags))
          /\ lastOp' = [op |-> "node_modify", id |-> id, tags |-> tags]
    /\ IngestFrame(2)

WayAdd ==
    /\ Ingest(1)
    /\ \E id \in WayIds, w \in WayInputs :
          /\ Install(way_add([Cur EXCEPT !.mw[id] = w], id, w.nodes, w.tags))
          /\ lastOp' = [op |-> "way_add", id |-> id]
    /\ IngestFrame(1)

WayDelete ==
    /\ Ingest(1)
    /\ \E id \in WayIds :
          /\ Install(Outcome(way_delete([Cur EXCEPT !.mw[id] = Missing], id)))
          /\ lastOp' = [op |-> "way_delete", id |-> id]
    /\ IngestFrame(1)

WayModify ==
    /\ Ingest(2)
    /\ \E id \in WayIds, w \in WayInputs :
          /\ Install(Outcome(way_modify([Cur EXCEPT !.mw[id] = w], id, w.nodes, w.tags)))
          /\ lastOp' = [op |-> "way_modify", id |-> id]
    /\ IngestFrame(2)

RelationAdd ==
    /\ Ingest(1)
    /\ \E id \in RelIds, tags \in RelTags, members \in MemberLists :
          /\ Install(relation_add(
                 [Cur EXCEPT !.mr[id] = [tags |-> tags, members |-> members]],
                 id, members, tags))
          /\ lastOp' = [op |-> "relation_add", id |-> id]
    /\ IngestFrame(1)

RelationDelete ==
    /\ Ingest(1)
    /\ \E id \in RelIds :
          /\ Install(Outcome(relation_delete([Cur EXCEPT !.mr[id] = Missing], id)))
          /\ lastOp' = [op |-> "relation_delete", id |-> id]
    /\ IngestFrame(1)

RelationModify ==
    /\ Ingest(2)
    /\ \E id \in RelIds, tags \in RelTags, members \in MemberLists :
          /\ Install(Outcome(relation_modify(
                 [Cur EXCEPT !.mr[id] = [tags |-> tags, members |-> members]],
                 id, members, tags)))
          /\ lastOp' = [op |-> "relation_modify", id |-> id]
    /\ IngestFrame(2)

PassFrame ==
    /\ UNCHANGED <<m_options, m_enable_way_area, nops>>
    /\ UNCHANGED finvars
    /\ UNCHANGED stylevars
    /\ UNCHANGED rolescan

\* output_pgsql_t::way_callback: the callback object of the ways pass is
\* constructed, its cursor takes the lowest pending way.
WayCallback ==
    /\ phase = "ingest" /\ ~err
    /\ Install(pop_way([Cur EXCEPT !.proc = <<>>, !.emitted = EmptyBag,
                                    !.pops = <<>>]))
    /\ phase' = "ways"
    /\ pend0' = ways_pending
    /\ ups' = {}
    /\ lastOp' = [op |-> "way_callback", id |-> 0]
    /\ PassFrame

\* The middle calls the callback for a way it holds; the IDs come in
\* strictly ascending order.
WayCb ==
    /\ phase = "ways" /\ ~err
    /\ \E id \in WayIds :
          /\ \A u \in ups : u < id
          /\ mid_ways[id] # Missing
          /\ Install(way_cb(Cur, id, mid_ways[id].tags, mid_ways[id].nodes,
                            m_options.append))
          /\ ups' = ups \cup {id}
          /\ lastOp' = [op |-> "way_cb", id |-> id]
    /\ UNCHANGED <<phase, pend0>>
    /\ PassFrame

WayFinish ==
    /\ phase = "ways" /\ ~err
    /\ Install(way_finish(Cur, m_options.append))
    /\ phase' = "ways_end"
    /\ lastOp' = [op |-> "way_finish", id |-> 0]
    /\ UNCHANGED <<pend0, ups>>
    /\ PassFrame

\* output_pgsql_t::relation_callback
RelationCallback ==
    /\ phase = "ways_end" /\ ~err
    /\ Install(pop_rel([Cur EXCEPT !.proc = <<>>, !.emitted = EmptyBag,
                                    !.pops = <<>>]))
    /\ phase' = "rels"
    /\ pend0' = rels_pending
    /\ ups' = {}
    /\ lastOp' = [op |-> "relation_callback", id |-> 0]
    /\ PassFrame

RelCb ==
    /\ phase = "rels" /\ ~err
    /\ \E id \in RelIds :
          /\ \A u \in ups : u < id
          /\ mid_rels[id] # Missing
          /\ Install(rel_cb(Cur, id, mid_rels[id].members, mid_rels[id].tags,
                            m_options.append))
          /\ ups' = ups \cup {id}
          /\ lastOp' = [op |-> "rel_cb", id |-> id]
    /\ UNCHANGED <<phase, pend0>>
    /\ PassFrame

RelFinish ==
    /\ phase = "rels" /\ ~err
    /\ Install(rel_finish(Cur, m_options.append))
    /\ phase' = "done"
    /\ lastOp' = [op |-> "rel_finish", id |-> 0]
    /\ UNCHANGED <<pend0, ups>>
    /\ PassFrame

Next ==
    \/ NodeAdd \/ NodeDelete \/ NodeModify
    \/ WayAdd \/ WayDelete \/ WayModify
    \/ RelationAdd \/ RelationDelete \/ RelationModify
    \/ WayCallback \/ WayCb \/ WayFinish
    \/ RelationCallback \/ RelCb \/ RelFinish

Spec == Init /\ [][Next]_vars

\* ------------------------------------------------------------ a first import
\* A full import run: append is off, the tables and the middle start empty,
\* the input file holds every object once, the ways before the relations,
\* and nothing is modified or deleted.  The middle has no changed objects,
\* so the two passes consist of the drain of the pending trackers.
InitImport == Init /\ ~m_options.append

ImportNodeAdd == NodeAdd

ImportWayAdd ==
    /\ \A r \in RelIds : mid_rels[r] = Missing
    /\ WayAdd
    /\ \A w \in WayIds : mid_ways[w] # Missing => mid_ways'[w] = mid_ways[w]

ImportRelationAdd ==
    /\ RelationAdd
    /\ \A r \in RelIds : mid_rels[r] # Missing => mid_rels'[r] = mid_rels[r]

NextImport ==
    \/ ImportNodeAdd \/ ImportWayAdd \/ ImportRelationAdd
    \/ WayCallback \/ WayFinish
    \/ RelationCallback \/ RelFinish

SpecImport == InitImport /\ [][NextImport]_vars

\* ------------------------------------------------------------------ helpers
Range(q) == {q[i] : i \in DOMAIN q}

StrictlyAscending(q) == \A i, j \in DOMAIN q : i < j => q[i] < q[j]

InWaysPass == phase \in {"ways", "ways_end"}
InRelsPass == phase \in {"rels", "done"}
PassFinished == phase \in {"ways_end", "done"}

\* The IDs of the two sequences the pass merges.
PassIds == pend0 \cup ups

\* The assumption of the merge property: no ID of the pass is marked done
\* and the middle holds every pending ID.
PassUnhindered ==
    /\ InWaysPass => /\ PassIds \cap ways_done = {}
                     /\ \A id \in pend0 : mid_ways[id] # Missing
    /\ InRelsPass => \A id \in pend0 : mid_rels[id] # Missing

\* The IDs the pass must have dealt with by now: all of them once finish()
\* has run, before that those up to the last upstream ID.
PassDue ==
    IF PassFinished THEN PassIds
    ELSE {id \in PassIds : \E u \in ups : id <= u}

\* -------------------------------------------------------------------- C1
\* C1: in a deferred pass (ways or relations) with strictly ascending
\* upstream IDs, the IDs handed to the pipeline are strictly ascending (so
\* none is handed over twice and none before a smaller one), they are IDs of
\* the upstream sequence or of the pending tracker, and, when no ID is
\* marked done and the middle holds every pending ID, every ID up to the
\* last upstream ID (every ID at all after finish()) has been handed over.
C1_MergeOrdering ==
    (InWaysPass \/ InRelsPass) =>
        /\ StrictlyAscending(proc)
        /\ Range(proc) \subseteq PassIds
        /\ PassUnhindered => PassDue \subseteq Range(proc)

\* A ways pass has finished in which an ID was both upstream and pending and
\* another ID was merged in.
C1_Witness ==
    /\ phase = "ways_end"
    /\ PassUnhindered
    /\ pend0 \cap ups # {}
    /\ Len(proc) >= 2

\* -------------------------------------------------------------------- C2
WroteWayRow(w) == \E r \in wrote' : r.t \in WayTables /\ r.id = w

\* The claim as stated: once a way ID is in ways_done, none of way_add,
\* way_modify, the deferred ways callback and the finish() drain writes a
\* row with that osm_id to the line, roads or polygon table.
C2_Original ==
    [][\A w \in ways_done :
          lastOp'.op \in {"way_add", "way_modify", "way_cb", "way_finish"}
              => ~WroteWayRow(w)]_vars

\* C2 (amended): once a way ID is in ways_done, the deferred ways callback
\* and the finish() drain write no row with that osm_id; the only operation
\* that does is a way_add or way_modify of that ID with kept non-polygon
\* tags, which writes without consulting ways_done.
C2_DoneSuppression ==
    [][\A w \in ways_done :
          WroteWayRow(w)
              => /\ lastOp'.op \in {"way_add", "way_modify"}
                 /\ lastOp'.id = w
                 /\ mid_ways'[w].tags \in {"line", "road"}]_vars

\* The drain of a ways pass has met a pending way that the middle holds and
\* that is marked done.
C2_Witness ==
    /\ lastOp.op = "way_finish"
    /\ \E w \in pend0 \cap ways_done :
          /\ mid_ways[w] # Missing
          /\ \A r \in BagToSet(emitted) : r.id # w

\* -------------------------------------------------------------------- C3
\* Rows of table t with the given osm_id written in this pass.
Emitted(t, id) == CountRows(emitted, t, id)

\* What way_add does, by the answer of the tag filter for the way's tags.
WayAddEffect ==
    lastOp'.op = "way_add" =>
        LET id == lastOp'.id
            w == mid_ways'[id]
            f == filter_way_tags(w.tags)
        IN /\ (f.filter = 0 /\ f.polygon # 0) =>
                  /\ id \in ways_pending'
                  /\ wrote' = {} /\ rows' = rows
           /\ (f.filter = 0 /\ f.polygon = 0) =>
                  /\ ways_pending' = ways_pending
                  /\ \A r \in wrote' : r.id = id /\ r.t \in {t_line, t_roads}
                  /\ (NodeCount(w.nodes) # 0) =>
                        \E r \in wrote' : r.t = t_line /\ rows'[r] > 0
           /\ f.filter # 0 =>
                  /\ ways_pending' = ways_pending
                  /\ wrote' = {} /\ rows' = rows

\* The pending ways of the finished ways pass that the middle holds with
\* polygon-flagged tags and that no relation has marked done.
PendingPolygonWays ==
    {w \in pend0 \ ways_done :
        mid_ways[w] # Missing /\ filter_way_tags(mid_ways[w].tags).polygon # 0}

MembersOf(r) == Range(mid_rels[r].members)

\* Relation r is a multipolygon whose member ways are all held by the middle
\* with polygon tags (so the tag transform flags each as superseded) and
\* assemble to exactly one polygon.
SupersedingMultipolygon(r) ==
    /\ mid_rels[r] # Missing
    /\ mid_rels[r].tags = "mp"
    /\ mid_rels[r].members # <<>>
    /\ \A m \in MembersOf(r) : mid_ways[m] # Missing /\ mid_ways[m].tags = "poly"
    /\ LET g == build([i \in DOMAIN mid_rels[r].members |->
                          mid_ways[mid_rels[r].members[i]].nodes], 1)
       IN Len(g) = 1 /\ IsPolygonWkt(g[1].wkt)

\* C4: after a full import run (the polygon member ways added, then the
\* multipolygon relation that supersedes them, then the ways pass and the
\* relations pass) the polygon table holds exactly one row with the negated
\* relation ID, no way table holds a row of a superseded member, and
\* ways_done contains every superseded member; with and without slim.
C4_Supersession ==
    phase = "done" =>
        \A r \in RelIds :
            SupersedingMultipolygon(r) =>
                /\ CountRows(rows, t_poly, -r) = 1
                /\ \A m \in MembersOf(r) :
                      /\ m \in ways_done
                      /\ \A t \in WayTables : CountRows(rows, t, m) = 0

\* -------------------------------------------------------------------- C5
\* C5: every row of the polygon table carries a way_area value exactly when
\* enable_way_area is set and the area computed for its geometry is
\* positive.
C5_WayAreaPresence ==
    \A r \in BagToSet(rows) :
        r.t = t_poly => (r.way_area <=> (m_enable_way_area /\ r.area > 0))

\* -------------------------------------------------------------------- C6
\* C6: no row written by relation processing has a positive osm_id and no
\* row written by way processing a negative one; the relation delete helper
\* deletes by the negated relation ID, the way delete helper by the way ID.
C6_SignDisjointness ==
    /\ \A r \in BagToSet(rows) :
          /\ r.by = "rel" => r.id < 0
          /\ r.by = "way" => r.id > 0
    /\ \A d \in dels :
          /\ d.by = "rel" => d.id < 0
          /\ d.by = "way" => d.id > 0

\* The tables hold a row written by relation processing and a row written
\* by way processing, and the last operation deleted rows of a relation.
C6_Witness ==
    /\ \E r \in BagToSet(rows) : r.by = "rel"
    /\ \E r \in BagToSet(rows) : r.by = "way"
    /\ \E d \in dels : d.by = "rel"

\* -------------------------------------------------------------------- C7
\* The roads flag the tag transform gave for the object a row belongs to.
RoadsFlag(r) ==
    IF r.by = "way"
    THEN mid_ways[r.id] # Missing /\ filter_way_tags(mid_ways[r.id].tags).roads # 0
    ELSE mid_rels[-r.id] # Missing
         /\ filter_rel_member_tags(mid_rels[-r.id].tags, <<>>).roads # 0

\* C7: the table of every row agrees with the geometry built: polygon and
\* multipolygon geometries are in the polygon table only, point geometries
\* (the rows of nodes) in the point table only, every other geometry in the
\* line or roads table; the last operation wrote a roads row only with the
\* roads flag set and together with the line row of the same geometry; and
\* a way flagged polygon whose build gave a linestring was written to the
\* line table.
C7_ClassificationParity ==
    /\ \A r \in BagToSet(rows) :
          /\ r.t = t_poly <=> IsPolygonWkt(r.wkt)
          /\ r.t = t_point <=> r.wkt = "POINT"
          /\ r.t = t_point <=> r.by = "node"
          /\ r.t \in {t_line, t_roads} <=> r.wkt = "LINESTRING"
    /\ \A r \in wrote :
          r.t = t_roads => /\ RoadsFlag(r)
                           /\ [r EXCEPT !.t = t_line] \in wrote

\* The last operation processed a way flagged polygon whose build gave a
\* linestring, and wrote it to the line table.
C7_Witness ==
    \E r \in wrote :
        /\ r.by = "way" /\ r.t = t_line
        /\ mid_ways[r.id] # Missing
        /\ filter_way_tags(mid_ways[r.id].tags).polygon # 0

\* -------------------------------------------------------------------- C8
\* The point table after a node_add of node n with the given tags on a
\* table that holds no row for n.
FreshNodeAdd(b, n, tags) ==
    node_add([Cur EXCEPT !.rows = WithoutRows(b, t_point, n)], n, tags).rows

\* C8: in slim mode node_modify(n, tags), and likewise node_add(n, tags)
\* right after node_delete(n), leaves the tables as a single node_add(n,
\* tags) does on a table with no row for n: exactly one row with osm_id = n
\* when the tag filter keeps the node, none when it drops it.
C8_NodeModifyRoundTrip ==
    [][(m_options.slim
        /\ \/ lastOp'.op = "node_modify"
           \/ /\ lastOp'.op = "node_add" /\ lastOp.op = "node_delete"
              /\ lastOp'.id = lastOp.id)
       => LET n == lastOp'.id
          IN /\ rows' = FreshNodeAdd(rows, n, lastOp'.tags)
             /\ CountRows(rows', t_point, n) =
                    IF filter_node_tags(lastOp'.tags) = 0 THEN 1 ELSE 0]_vars

\* A node_modify in slim mode has replaced the row the node had.
C8_Witness ==
    /\ m_options.slim /\ ~err
    /\ lastOp.op = "node_modify"
    /\ \E d \in dels : d.t = t_point /\ d.id = lastOp.id
    /\ \E r \in wrote : r.t = t_point /\ r.id = lastOp.id

\* -------------------------------------------------------------------- C9
DiffOps == {"node_delete", "way_delete", "relation_delete",
            "node_modify", "way_modify", "relation_modify"}

\* C9: outside slim mode each delete and modify operation ends in the fatal
\* error state with the tables, the trackers and the middle as they were:
\* no row written, no DELETE issued, no ID marked.
C9_NoSlimFatal ==
    [][(~m_options.slim /\ lastOp'.op \in DiffOps)
       => /\ err'
          /\ wrote' = {} /\ dels' = {}
          /\ UNCHANGED <<rows, ways_pending, ways_done, rels_pending,
                         mid_ways, mid_rels>>]_vars

\* Outside slim mode a way_modify has ended the run with rows in the tables.
C9_Witness ==
    /\ ~m_options.slim /\ err
    /\ lastOp.op = "way_modify"
    /\ rows # EmptyBag

\* ------------------------------------------------------------------- C10
\* After the delete operation named by lastOp no row of the deleted object
\* is left in the tables it is deleted from.
NoRowLeft ==
    /\ lastOp.op = "way_delete" =>
          \A t \in WayTables : CountRows(rows, t, lastOp.id) = 0
    /\ lastOp.op = "relation_delete" =>
          \A t \in WayTables : CountRows(rows, t, -lastOp.id) = 0
    /\ lastOp.op = "node_delete" =>
          CountRows(rows, t_point, lastOp.id) = 0

\* The claim as stated: in slim mode the rows are gone after each of the
\* three deletes, for every setting of the other options.
C10_Original == m_options.slim => NoRowLeft

\* C10 (amended): in slim mode no row with osm_id = -id is left in the
\* line, polygon and roads tables after relation_delete(id) and no row with
\* osm_id = id in the point table after node_delete(id), for every setting
\* of the other options; after way_delete(id) no row with osm_id = id is
\* left in the line, polygon and roads tables when drop-temp is off, while
\* with drop-temp on way_delete deletes nothing.
C10_DeleteRemovesRows ==
    m_options.slim =>
        /\ (lastOp.op = "way_delete" /\ m_options.droptemp)
              => dels = {}
        /\ ~(lastOp.op = "way_delete" /\ m_options.droptemp)
              => NoRowLeft

\* In slim mode without drop-temp a way_delete has removed the polygon row
\* of a way.
C10_Witness ==
    /\ m_options.slim /\ ~m_options.droptemp
    /\ lastOp.op = "way_delete"
    /\ \E d \in dels : d.t = t_poly

\* ------------------------------------------------------------------- C11
\* The relations the middle holds that have way id as a member.
UsingWay(mr, id) == relations_using_way([mr |-> mr], id)

\* IDs handed to the pipeline by the step.
NewlyHanded ==
    {proc'[i] : i \in (DOMAIN proc') \ (DOMAIN proc)}

\* C11: when a way that is a member of relations changes, through
\* way_modify or through its reprocessing in the deferred ways pass of an
\* append run, every relation that relations_using_way returns for it is
\* marked in rels_pending, whether the way is linear or a polygon.
C11_RelationsMarked ==
    [][/\ (lastOp'.op = "way_modify" /\ ~err')
            => UsingWay(mid_rels', lastOp'.id) \subseteq rels_pending'
       /\ (phase = "ways" /\ m_options.append)
            => \A w \in NewlyHanded :
                  UsingWay(mid_rels', w) \subseteq rels_pending']_vars

\* ------------------------------------------------------------------- C12
\* C12: every DELETE on an output table is issued after pgsql_pause_copy on
\* that table with no write to the table in between: no DELETE runs while
\* the COPY of its table is active.
C12_DeleteAfterPause == \A d \in dels : ~d.live

\* A way_modify has deleted the line row of the way, written earlier through
\* COPY, and written the new one, which restarted COPY on the line table.
C12_Witness ==
    /\ lastOp.op = "way_modify" /\ ~err
    /\ \E d \in dels : d.t = t_line /\ d.id = lastOp.id
    /\ \E r \in wrote : r.t = t_line /\ r.id = lastOp.id
    /\ t_line \in copy

\* ------------------------------------------------------------------- C13
\* C13: within one deferred pass the values the cursor m_next_internal_id
\* takes, from the pop in the constructor through the pops of the callback
\* and of finish(), are strictly increasing up to the OSMID_MAX sentinel,
\* and nothing run inside the pass marks an ID in the tracker it drains.
C13_CursorMonotone ==
    /\ StrictlyAscending(pops)
    /\ \A i \in DOMAIN pops : pops[i] = OSMID_MAX => i = Len(pops)
    /\ (pops # <<>>) => m_next_internal_id = pops[Len(pops)]
    /\ InWaysPass => ways_pending \subseteq pend0
    /\ InRelsPass => rels_pending \subseteq pend0

\* A pass has popped two pending IDs and then the sentinel.
C13_Witness ==
    /\ Len(pops) = 3
    /\ pops[1] < pops[2] /\ pops[3] = OSMID_MAX
    /\ PassFinished

\* ------------------------------------------------------------------- C14
\* When finish() has returned the pending tracker of the pass is empty, the
\* cursor equals OSMID_MAX, and every ID that was pending has been handed to
\* the pipeline, suppressed as done, or dropped as missing.
Drained ==
    /\ phase = "ways_end" =>
          /\ ways_pending = {}
          /\ m_next_internal_id = OSMID_MAX
          /\ \A id \in pend0 : \/ id \in Range(proc)
                                \/ id \in ways_done
                                \/ mid_ways[id] = Missing
    /\ phase = "done" =>
          /\ rels_pending = {}
          /\ m_next_internal_id = OSMID_MAX
          /\ \A id \in pend0 : id \in Range(proc) \/ mid_rels[id] = Missing

\* C14: finish() of a deferred pass terminates, its loop popping the tracker
\* at most once for each ID that was pending and once more for the
\* sentinel; and when finish() has returned the pending tracker of the pass
\* is empty, the cursor equals OSMID_MAX, and every ID that was pending has
\* been handed to the pipeline, suppressed as done, or dropped as missing.
C14_FinishDrains ==
    /\ Drained
    /\ Len(pops) <= Cardinality(pend0) + 1
    /\ PassFinished => Len(pops) = Cardinality(pend0) + 1

\* finish() of the ways pass has returned after one pending way was handed
\* to the pipeline and another one dropped as missing.
C14_Witness ==
    /\ phase = "ways_end"
    /\ \E id \in pend0 : id \in Range(proc)
    /\ \E id \in pend0 : mid_ways[id] = Missing

\* ------------------------------------------------------------------- C15
\* The operations of the two passes.
WayPassOps == {"way_callback", "way_cb", "way_finish"}
RelPassOps == {"relation_callback", "rel_cb", "rel_finish"}

\* C15: when the middle does not hold a pending way or relation of a
\* deferred pass, the pass writes no row and issues no DELETE for that ID,
\* enters no error state, and goes on: once finish() has returned every
\* pending ID the middle holds has been handed to the pipeline (a way
\* unless it is marked done).
C15_MissingDropped ==
    /\ InWaysPass =>
          \A w \in pend0 : mid_ways[w] = Missing =>
              /\ ~err
              /\ w \notin Range(proc)
              /\ \A r \in BagToSet(emitted) : r.id # w
              /\ lastOp.op \in WayPassOps => \A d \in dels : d.id # w
    /\ InRelsPass =>
          \A x \in pend0 : mid_rels[x] = Missing =>
              /\ ~err
              /\ x \notin Range(proc)
              /\ \A r \in BagToSet(emitted) : r.id # -x
              /\ lastOp.op \in RelPassOps => \A d \in dels : d.id # -x
    /\ phase = "ways_end" =>
          \A w \in pend0 : (mid_ways[w] # Missing /\ w \notin ways_done)
                                => w \in Range(proc)
    /\ phase = "done" =>
          \A x \in pend0 : mid_rels[x] # Missing => x \in Range(proc)

\* The ways pass has ended after it met a pending way the middle does not
\* hold and then handed a later pending way to the pipeline.
C15_Witness ==
    /\ phase = "ways_end" /\ ~err
    /\ \E w1, w2 \in pend0 :
          /\ w1 < w2
          /\ mid_ways[w1] = Missing
          /\ w2 \in Range(proc)
          /\ \E r \in BagToSet(emitted) : r.id = w2

\* =================================================================== stop()
\* One SQL statement executed by pgsql_exec on a table's connection:
\*   op          "ANALYZE", "CREATE TABLE", "DROP TABLE", "ALTER TABLE",
\*               "GIST", "BTREE", "GIN_TAGS", "GIN_COLUMN", "GRANT"
\*   col         index of the hstore column of a GIN_COLUMN index, else 0
\*   fillfactor  the statement has WITH (FILLFACTOR=100)
\*   tablespace  the statement names the index tablespace
Stmt(op, col, fillfactor, tablespace) ==
    [op |-> op, col |-> col, fillfactor |-> fillfactor, tablespace |-> tablespace]

\* The table will be updated by diffs.
Updatable(o) == o.slim /\ ~o.droptemp

\* The GIST index with FILLFACTOR=100 on the updatable tables.
gist_index_inverted(o, f) ==
    <<Stmt("GIST", 0, Updatable(o), f.tblsmain_index)>>

\* The CREATE INDEX ... USING GIST (way) of pgsql_out_stop_one.
gist_index(o, f) ==
    <<Stmt("GIST", 0, ~Updatable(o), f.tblsmain_index)>>

\* The CREATE INDEX ... USING BTREE (osm_id) of pgsql_out_stop_one.
btree_index(o, f) ==
    IF Updatable(o) THEN <<Stmt("BTREE", 0, FALSE, f.tblsmain_index)>> ELSE <<>>

\* The hstore indexes without those of the hstore columns.
hstore_indexes_tags_only(o, f) ==
    IF ~f.enable_hstore_index THEN <<>>
    ELSE IF f.enable_hstore
         THEN <<Stmt("GIN_TAGS", 0, FALSE, f.tblsmain_index)>> ELSE <<>>

\* The hstore indexes of pgsql_out_stop_one: the GIN index on tags when an
\* hstore mode is on, then one GIN index for each of hstore_columns.
hstore_indexes(o, f) ==
    IF ~f.enable_hstore_index THEN <<>>
    ELSE (IF f.enable_hstore
          THEN <<Stmt("GIN_TAGS", 0, FALSE, f.tblsmain_index)>> ELSE <<>>)
         \o [k \in 1..f.hstore_columns |->
                Stmt("GIN_COLUMN", k, FALSE, f.tblsmain_index)]

\* The statements of the non-append branch, in order.
index_statements(o, f) ==
    <<Stmt("ANALYZE", 0, FALSE, FALSE), Stmt("CREATE TABLE", 0, FALSE, FALSE),
      Stmt("DROP TABLE", 0, FALSE, FALSE), Stmt("ALTER TABLE", 0, FALSE, FALSE)>>
    \o gist_index(o, f) \o btree_index(o, f) \o hstore_indexes(o, f)
    \o <<Stmt("GRANT", 0, FALSE, FALSE), Stmt("ANALYZE", 0, FALSE, FALSE)>>

\* pgsql_out_stop_one that sorts and indexes in append mode too.
stop_one_statements_always(o, f) == index_statements(o, f)

\* The statements pgsql_out_stop_one executes between pgsql_pause_copy and
\* PQfinish.
stop_one_statements(o, f) ==
    IF ~o.append THEN index_statements(o, f) ELSE <<>>

\* Every thunk pointing at the table of the last one.
thunk_ptr_last(i) == Tables[NUM_TABLES]

\* thunks[i].ptr = m_tables[i].get(): the table the i-th thread is given.
thunk_ptr(i) == Tables[i]

\* The table the i-th call of pgsql_out_stop_one works on: that of its thunk
\* in the parallel path, m_tables[i] in the serial loop.
TableOf(i) == IF fin_options.parallel_indexing THEN thunk_ptr(i) ELSE Tables[i]

\* What stop() leaves alone in the emitter.
StopFrame ==
    UNCHANGED <<m_options, m_enable_way_area, rows, ways_pending, ways_done,
                rels_pending, mid_ways, mid_rels, phase, m_next_internal_id,
                pops, proc, pend0, ups, emitted, wrote, dels, lastOp, nops,
                builds, fin_options, style_file, m_export_list, style_pc,
                rolescan>>

\* stop() is entered.
StopBegin ==
    /\ stop_pc = "idle" /\ ~err
    /\ stop_pc' = IF fin_options.parallel_indexing THEN "create" ELSE "serial"
    /\ UNCHANGED <<stop_i, wpc, sql, conn, toucher, torn, released, copy, err>>
    /\ StopFrame

\* One turn of the pthread_create loop; pthread_create may fail, which is
\* fatal.
ThreadCreate ==
    /\ stop_pc = "create" /\ ~err
    /\ \E ret \in {0, 1} :
          IF ret # 0
          THEN /\ err' = TRUE
               /\ UNCHANGED <<stop_pc, stop_i, wpc>>
          ELSE /\ wpc' = [wpc EXCEPT ![stop_i] = "created"]
               /\ stop_i' = IF stop_i = NUM_TABLES THEN 1 ELSE stop_i + 1
               /\ stop_pc' = IF stop_i = NUM_TABLES THEN "join" ELSE "create"
               /\ UNCHANGED err
    /\ UNCHANGED <<sql, conn, toucher, torn, released, copy>>
    /\ StopFrame

\* One turn of the pthread_join loop: it returns when thread i has ended.
ThreadJoin ==
    /\ stop_pc = "join" /\ ~err
    /\ wpc[stop_i] = "done"
    /\ stop_i' = IF stop_i = NUM_TABLES THEN 1 ELSE stop_i + 1
    /\ stop_pc' = IF stop_i = NUM_TABLES THEN "cleanup" ELSE "join"
    /\ UNCHANGED <<wpc, sql, conn, toucher, torn, released, copy, err>>
    /\ StopFrame

\* The i-th call of pgsql_out_stop_one may take a step: its thread runs, or
\* the serial loop is at i.
Running(i) ==
    IF fin_options.parallel_indexing
    THEN wpc[i] \in {"created", "paused"}
    ELSE stop_pc = "serial" /\ stop_i = i

\* pgsql_out_stop_one up to pgsql_pause_copy: a buffer that still holds
\* bytes is fatal, else the COPY of the table is ended.
StopOnePause ==
    /\ ~err
    /\ \E i \in 1..NUM_TABLES :
          /\ Running(i)
          /\ wpc[i] \in {"none", "created"}
          /\ \E buflen \in {0, 1} :
                IF buflen # 0
                THEN /\ err' = TRUE
                     /\ UNCHANGED <<wpc, copy, toucher>>
                ELSE /\ wpc' = [wpc EXCEPT ![i] = "paused"]
                     /\ copy' = copy \ {TableOf(i)}
                     /\ toucher' = [toucher EXCEPT ![TableOf(i)] = @ \cup {i}]
                     /\ UNCHANGED err
    /\ UNCHANGED <<stop_pc, stop_i, sql, conn, torn, released>>
    /\ StopFrame

\* pgsql_out_stop_one from the test of append to its return: the statements
\* are executed on the connection of the table, which is then closed.
StopOneIndex ==
    /\ ~err
    /\ \E i \in 1..NUM_TABLES :
          /\ Running(i)
          /\ wpc[i] = "paused"
          /\ wpc' = [wpc EXCEPT ![i] = "done"]
          /\ sql' = [sql EXCEPT ![TableOf(i)] =
                         @ \o stop_one_statements(m_options, fin_options)]
          /\ conn' = [conn EXCEPT ![TableOf(i)] = FALSE]
          /\ toucher' = [toucher EXCEPT ![TableOf(i)] = @ \cup {i}]
          /\ IF fin_options.parallel_indexing
             THEN UNCHANGED <<stop_pc, stop_i>>
             ELSE /\ stop_i' = IF i = NUM_TABLES THEN 1 ELSE i + 1
                  /\ stop_pc' = IF i = NUM_TABLES THEN "cleanup" ELSE "serial"
    /\ UNCHANGED <<torn, released, copy, err>>
    /\ StopFrame

\* cleanup(): teardown of every table.
Cleanup ==
    /\ stop_pc = "cleanup" /\ ~err
    /\ torn' = TableSet
    /\ stop_pc' = "release"
    /\ UNCHANGED <<stop_i, wpc, sql, conn, toucher, released, copy, err>>
    /\ StopFrame

\* delete m_export_list; expire.reset(); stop() returns.
Release ==
    /\ stop_pc = "release" /\ ~err
    /\ released' = TRUE
    /\ stop_pc' = "returned"
    /\ UNCHANGED <<stop_i, wpc, sql, conn, toucher, torn, copy, err>>
    /\ StopFrame

\* stop() on an output that has been started, for every setting of the
\* options.
InitStop ==
    /\ m_options \in [slim : BOOLEAN, droptemp : BOOLEAN, append : BOOLEAN]
    /\ m_enable_way_area = TRUE
    /\ EmitterInit(FALSE)
    /\ fin_options \in FinOptions
    /\ FinIdle
    /\ StyleDone
    /\ RoleIdle

NextStop ==
    \/ StopBegin \/ ThreadCreate \/ ThreadJoin
    \/ StopOnePause \/ StopOneIndex
    \/ Cleanup \/ Release

SpecStop == InitStop /\ [][NextStop]_vars

TypeOKStop ==
    /\ fin_options \in FinOptions
    /\ stop_pc \in {"idle", "create", "join", "serial", "cleanup", "release",
                     "returned"}
    /\ stop_i \in 1..NUM_TABLES
    /\ wpc \in [1..NUM_TABLES -> {"none", "created", "paused", "done"}]
    /\ conn \in [TableSet -> BOOLEAN]
    /\ torn \subseteq TableSet
    /\ released \in BOOLEAN

\* Number of statements of q with the given op (and column).
CountOp(q, op) == Cardinality({k \in DOMAIN q : q[k].op = op})
CountCol(q, col) ==
    Cardinality({k \in DOMAIN q : q[k].op = "GIN_COLUMN" /\ q[k].col = col})

\* The tables whose pgsql_out_stop_one has returned.
Finalised == {TableOf(i) : i \in {j \in 1..NUM_TABLES : wpc[j] = "done"}}

\* ------------------------------------------------------------------- C16
\* C16: in append mode the finaliser of a table ends the active COPY and
\* closes the connection and executes no ANALYZE, CREATE TABLE, DROP TABLE,
\* ALTER TABLE, CREATE INDEX or GRANT on the table.
C16_AppendNoDdl ==
    m_options.append =>
        /\ \A t \in TableSet : sql[t] = <<>>
        /\ \A t \in Finalised : t \notin copy /\ ~conn[t]

\* stop() has returned in append mode.
C16_Witness ==
    /\ m_options.append /\ stop_pc = "returned"
    /\ Finalised = TableSet

\* ------------------------------------------------------------------- C17
\* C17: in the non-append finalisation of a table the GIST index on way is
\* created once, WITH (FILLFACTOR=100) exactly when the table will not be
\* updated (not slim, or drop-temp), and the BTREE index on osm_id is
\* created exactly when it will be (slim and not drop-temp); each names the
\* index tablespace exactly when one is configured.
C17_IndexChoice ==
    ~m_options.append =>
        \A t \in Finalised :
            /\ CountOp(sql[t], "GIST") = 1
            /\ CountOp(sql[t], "BTREE") =
                   IF m_options.slim /\ ~m_options.droptemp THEN 1 ELSE 0
            /\ \A k \in DOMAIN sql[t] :
                  /\ sql[t][k].op = "GIST" =>
                        sql[t][k].fillfactor
                            = (~m_options.slim \/ m_options.droptemp)
                  /\ sql[t][k].op = "BTREE" => ~sql[t][k].fillfactor
                  /\ sql[t][k].op \in {"GIST", "BTREE"} =>
                        sql[t][k].tablespace = fin_options.tblsmain_index

\* stop() has returned after indexing updatable tables in an index
\* tablespace.
C17_Witness ==
    /\ ~m_options.append /\ m_options.slim /\ ~m_options.droptemp
    /\ fin_options.tblsmain_index
    /\ stop_pc = "returned"
    /\ \A t \in TableSet : CountOp(sql[t], "BTREE") = 1

\* ------------------------------------------------------------------- C18
\* The claim as stated: in non-append finalisation with hstore enabled the
\* table gets a GIN index on tags and one GIN index for each hstore column.
C18_Original ==
    (~m_options.append /\ fin_options.enable_hstore) =>
        \A t \in Finalised :
            /\ CountOp(sql[t], "GIN_TAGS") = 1
            /\ \A c \in 1..fin_options.hstore_columns : CountCol(sql[t], c) = 1

\* C18 (amended): in non-append finalisation with enable_hstore_index set,
\* the table gets a GIN index on tags exactly when an hstore mode is on and
\* one GIN index for each user-declared hstore column; with
\* enable_hstore_index not set it gets no GIN index, whatever the hstore
\* mode.
C18_HstoreIndexes ==
    ~m_options.append =>
        \A t \in Finalised :
            /\ CountOp(sql[t], "GIN_TAGS") =
                   IF fin_options.enable_hstore_index /\ fin_options.enable_hstore
                   THEN 1 ELSE 0
            /\ \A c \in 1..fin_options.hstore_columns :
                  CountCol(sql[t], c) =
                      IF fin_options.enable_hstore_index THEN 1 ELSE 0
            /\ CountOp(sql[t], "GIN_COLUMN") =
                   IF fin_options.enable_hstore_index
                   THEN fin_options.hstore_columns ELSE 0

\* stop() has returned after creating the GIN index on tags and those of two
\* hstore columns on every table.
C18_Witness ==
    /\ ~m_options.append /\ stop_pc = "returned"
    /\ fin_options.enable_hstore_index /\ fin_options.enable_hstore
    /\ fin_options.hstore_columns = MaxHstoreCols
    /\ \A t \in TableSet : CountOp(sql[t], "GIN_COLUMN") = MaxHstoreCols

\* ------------------------------------------------------------------- C19
\* The state stop() returns in, which does not depend on parallel_indexing.
StopResult ==
    /\ sql = [t \in TableSet |-> stop_one_statements(m_options, fin_options)]
    /\ conn = [t \in TableSet |-> FALSE]
    /\ copy = {}
    /\ torn = TableSet
    /\ released

\* C19: in the parallel finalisation each of the four tables is finalised
\* exactly once, by the one worker it was given to, and no worker uses
\* another table's connection or buffer; cleanup() and the release of the
\* export list and the expire accumulator come only after all four workers
\* have ended; and stop() returns in the same state as on the serial path.
C19_ParallelFinalisation ==
    /\ \A i \in 1..NUM_TABLES : toucher[Tables[i]] \subseteq {i}
    /\ \A i \in 1..NUM_TABLES :
          wpc[i] = "done" =>
              /\ toucher[Tables[i]] = {i}
              /\ sql[Tables[i]] = stop_one_statements(m_options, fin_options)
              /\ ~conn[Tables[i]]
    /\ (torn # {} \/ released \/ stop_pc \in {"cleanup", "release", "returned"})
          => \A i \in 1..NUM_TABLES : wpc[i] = "done"
    /\ stop_pc = "returned" => StopResult

\* The parallel stop() has returned.
C19_Witness ==
    /\ fin_options.parallel_indexing /\ ~m_options.append
    /\ stop_pc = "returned" /\ released

\* ========================================================= loading the style
\* start() reads the style file before it sets up a table: no table has a
\* connection or a COPY yet, m_enable_way_area is not yet assigned.
InitStyle ==
    /\ style_file \in StyleFiles
    /\ m_export_list = <<>>
    /\ style_pc = "start"
    /\ m_enable_way_area \in BOOLEAN
    /\ m_options = [slim |-> FALSE, droptemp |-> FALSE, append |-> FALSE]
    /\ rows = EmptyBag
    /\ mid_ways = [w \in WayIds |-> Missing]
    /\ mid_rels = [r \in RelIds |-> Missing]
    /\ ways_pending = {} /\ ways_done = {} /\ rels_pending = {}
    /\ phase = "ingest"
    /\ m_next_internal_id = OSMID_MAX
    /\ copy = {}
    /\ pops = <<>> /\ proc = <<>> /\ pend0 = {} /\ ups = {}
    /\ emitted = EmptyBag /\ wrote = {} /\ dels = {}
    /\ lastOp = [op |-> "none", id |-> 0]
    /\ err = FALSE
    /\ builds = <<>>
    /\ nops = 0
    /\ fin_options = [parallel_indexing |-> FALSE, enable_hstore_index |-> FALSE,
                      enable_hstore |-> FALSE, tblsmain_index |-> FALSE,
                      hstore_columns |-> 0]
    /\ stop_pc = "idle" /\ stop_i = 1
    /\ wpc = [i \in 1..NUM_TABLES |-> "none"]
    /\ sql = [t \in TableSet |-> <<>>]
    /\ conn = [t \in TableSet |-> FALSE]
    /\ toucher = [t \in TableSet |-> {}]
    /\ torn = {}
    /\ released = FALSE
    /\ RoleIdle

\* m_enable_way_area = read_style_file(m_options->style, m_export_list) in
\* start(); a fatal exit ends the process.
ReadStyleFile ==
    /\ style_pc = "start"
    /\ \E uninit \in FlagBuffers :
          LET st == read_style_file(style_file, uninit)
          IN /\ m_export_list' = st.exlist
             /\ err' = st.err
             /\ style_pc' = IF st.err THEN "fatal" ELSE "loaded"
             /\ m_enable_way_area' =
                    IF st.err THEN m_enable_way_area ELSE st.enable_way_area
    /\ lastOp' = [op |-> "read_style_file", id |-> 0]
    /\ UNCHANGED <<m_options, rows, ways_pending, ways_done, rels_pending,
                   mid_ways, mid_rels, phase, m_next_internal_id, copy, pops,
                   proc, pend0, ups, emitted, wrote, dels, nops, builds,
                   style_file, rolescan>>
    /\ UNCHANGED finvars

NextStyle == ReadStyleFile

SpecStyle == InitStyle /\ [][NextStyle]_vars

\* ------------------------------------------------------------------- C20
\* The flags a line of the style file carries: the known tokens of its
\* fourth field, none when the line has three fields.
WrittenFlags(l) == flag_mask(l.flags)

\* C20: style loading ends in the fatal error state when a non-blank line
\* has fewer than 3 fields, when a line whose flags are not exactly DELETE
\* has a name with a wildcard, or when no valid line was parsed; and after
\* a successful load the ExportList is not empty and every entry of it with
\* flags other than exactly DELETE has a wildcard-free name.
C20_StyleLoading ==
    style_pc # "start" =>
        /\ (\E k \in DOMAIN style_file : style_file[k].fields \in {1, 2})
              => style_pc = "fatal"
        /\ (\E k \in DOMAIN style_file :
                /\ style_file[k].fields >= 3
                /\ style_file[k].name = "wild"
                /\ WrittenFlags(style_file[k]) # FLAG_DELETE)
              => style_pc = "fatal"
        /\ (\A k \in DOMAIN style_file : style_file[k].fields = 0)
              => style_pc = "fatal"
        /\ style_pc = "loaded" =>
              /\ m_export_list # <<>>
              /\ \A k \in DOMAIN m_export_list :
                    m_export_list[k].flags # FLAG_DELETE
                        => m_export_list[k].name # "wild"

\* ------------------------------------------------------------------- C21
\* The rules of the ExportList named way_area that carry the DELETE flag,
\* with or without other flags.
WayAreaDeleted ==
    {k \in DOMAIN m_export_list :
        /\ m_export_list[k].name = "way_area"
        /\ "delete" \in m_export_list[k].flags}

\* C21: after style loading enable_way_area is false if some rule named
\* way_area carries the DELETE flag, alone or together with other flags,
\* and true otherwise.
C21_WayAreaSwitch ==
    style_pc = "loaded" => (m_enable_way_area <=> WayAreaDeleted = {})

\* ------------------------------------------------------------------- C28
\* C28: the flag set of each style rule depends only on its own line: it is
\* the set of known flags written in the fourth field of the line, unknown
\* tokens ignored, and empty for a line of three fields whatever the lines
\* before it carried.
C28_FlagsOfOwnLine ==
    style_pc # "start" =>
        \A k \in DOMAIN m_export_list :
            m_export_list[k].flags = WrittenFlags(style_file[m_export_list[k].line])

\* =================================================== relation processing
\* The last operation was relation_add or relation_modify and has returned.
RelationOpDone == lastOp.op \in {"relation_add", "relation_modify"} /\ ~err

\* What pgsql_process_relation works on for the relation the middle holds
\* under the ID: the member ways the bulk fetch returns, their tags and node
\* lists, the out-parameters of filter_rel_member_tags and whether both
\* filters keep the relation.
RelView(mw, rel) ==
    LET xid == SelectFound(mw, rel.members)
        xtags == [i \in DOMAIN xid |-> mw[xid[i]].tags]
        xnodes == [i \in DOMAIN xid |-> mw[xid[i]].nodes]
        f == filter_rel_member_tags(rel.tags, xtags)
    IN [xid |-> xid, xtags |-> xtags, xnodes |-> xnodes, f |-> f,
        kept |-> rel.tags # "notype" /\ filter_rel_tags(rel.tags) = 0
                 /\ f.filter = 0 /\ Len(xid) > 0]

\* ------------------------------------------------------------------- C22
\* C22: after relation processing with make_polygon (is_polygon) set, every
\* fetched member way that filter_rel_member_tags flagged as superseded is
\* marked in ways_done, whatever the other members are and however many
\* geometries the build returned.
C22_SupersededMarked ==
    RelationOpDone =>
        LET v == RelView(mid_ways, mid_rels[lastOp.id])
        IN (v.kept /\ v.f.make_polygon # 0) =>
              \A i \in DOMAIN v.xid :
                  v.f.members_superseeded[i] # 0 => v.xid[i] \in ways_done

\* ------------------------------------------------------------------- C23
\* Number of polygon and of other geometries in the result of a build.
NPoly(wkts) == Cardinality({i \in DOMAIN wkts : IsPolygonWkt(wkts[i].wkt)})
NLine(wkts) == Cardinality({i \in DOMAIN wkts : ~IsPolygonWkt(wkts[i].wkt)})

\* The step is a relation_add of a relation both filters keep, with at least
\* one fetched member way and make_boundary (is_boundary) set.
BoundaryAdded ==
    /\ lastOp'.op = "relation_add"
    /\ LET v == RelView(mid_ways', mid_rels'[lastOp'.id])
       IN v.kept /\ v.f.make_boundary # 0

\* C23 as stated: for a relation with is_boundary set a second build with
\* make_polygon = 1 is run, whatever make_polygon was in the first build
\* and however many geometries the first build produced.
C23_Original ==
    [][BoundaryAdded =>
          /\ Len(builds') = 2
          /\ builds'[2] = BuildCall(lastOp'.id, 1,
                 Len(build(RelView(mid_ways', mid_rels'[lastOp'.id]).xnodes, 1)))]_vars

\* C23 (amended): for a relation with is_boundary set whose first build
\* returns at least one geometry, a second build with make_polygon = 1 is
\* run whatever make_polygon was in the first build; of its geometries only
\* the polygons are written, to the polygon table with the negated relation
\* ID, and the line and roads rows of the first build stay.  When the first
\* build returns no geometry there is no second build and no row is written.
C23_BoundarySecondBuild ==
    [][BoundaryAdded =>
          LET r == lastOp'.id
              v == RelView(mid_ways', mid_rels'[r])
              first == build(v.xnodes, v.f.make_polygon)
              second == build(v.xnodes, 1)
          IN IF Len(first) = 0
             THEN /\ builds' = <<BuildCall(r, v.f.make_polygon, 0)>>
                  /\ rows' = rows
                  /\ wrote' = {}
             ELSE /\ builds' = <<BuildCall(r, v.f.make_polygon, Len(first)),
                                  BuildCall(r, 1, Len(second))>>
                  /\ \A w \in wrote' : w.id = -r
                  /\ CountRows(rows', t_poly, -r) =
                        CountRows(rows, t_poly, -r) + NPoly(first) + NPoly(second)
                  /\ CountRows(rows', t_line, -r) =
                        CountRows(rows, t_line, -r) + NLine(first)
                  /\ CountRows(rows', t_roads, -r) =
                        CountRows(rows, t_roads, -r)
                        + (IF v.f.roads # 0 THEN NLine(first) ELSE 0)]_vars

\* A boundary relation of a closed and an open way has been added: the
\* first build gave linestrings, written to line and roads; the second gave
\* a polygon, written, and a linestring, not written again.
C23_Witness ==
    /\ RelationOpDone
    /\ lastOp.op = "relation_add"
    /\ Len(builds) = 2
    /\ builds[1].make_polygon = 0
    /\ builds[2].wkt_size = 2
    /\ Cardinality({w \in wrote : w.t = t_poly}) = 1
    /\ Cardinality({w \in wrote : w.t = t_line}) = 2
    /\ Cardinality({w \in wrote : w.t = t_roads}) = 2

\* ------------------------------------------------------------------- C24
\* The ways handed to pgsql_out_way with exists set in this ways pass, and
\* the relations handed to pgsql_process_relation with exists set in this
\* relations pass (the callbacks pass m_options.append as exists).
WaysProcessedExisting ==
    IF InWaysPass /\ m_options.append /\ ~err THEN Range(proc) ELSE {}

RelsProcessedExisting ==
    IF InRelsPass /\ m_options.append /\ ~err THEN Range(proc) ELSE {}

\* The rows the table holds for the ID are those written in this pass: what
\* was there before the object was processed is gone.
OnlyNewRows(id) ==
    \A t \in WayTables : CountRows(rows, t, id) = CountRows(emitted, t, id)

NoRows(id) == \A t \in WayTables : CountRows(rows, t, id) = 0

WayDropped(id) == filter_way_tags(mid_ways[id].tags).filter # 0

\* The relations-pass half of C24, which holds in every mode: processing a
\* relation with exists set deletes its prior rows before the relation
\* filter is applied.
RelationRowsReplaced ==
    \A r \in RelsProcessedExisting :
        /\ OnlyNewRows(-r)
        /\ filter_rel_tags(mid_rels[r].tags) # 0 => NoRows(-r)

\* C24 as stated: way processing with exists set deletes the way's prior
\* rows and marks the relations using the way before the tag filter, so a
\* way now dropped ends with no rows and its relations pending; relation
\* processing with exists set deletes the prior rows before its filter.
C24_Original ==
    /\ \A w \in WaysProcessedExisting :
          /\ relations_using_way(Cur, w) \subseteq rels_pending
          /\ OnlyNewRows(w)
          /\ WayDropped(w) => NoRows(w)
    /\ RelationRowsReplaced

\* C24 (amended): way processing with exists set calls the delete helper
\* and marks the relations using the way before the tag filter; the helper
\* deletes the prior rows in slim mode with drop-temp off only, and there a
\* way now dropped ends with no rows.  Relation processing with exists set
\* deletes the prior rows before its filter in every mode.
C24_DeleteBeforeFilter ==
    /\ \A w \in WaysProcessedExisting :
          /\ relations_using_way(Cur, w) \subseteq rels_pending
          /\ (m_options.slim /\ ~m_options.droptemp) =>
                /\ OnlyNewRows(w)
                /\ WayDropped(w) => NoRows(w)
    /\ RelationRowsReplaced

\* In the ways pass of an append run a way with a row and a relation using
\* it is processed with tags the filter now drops: its row has been deleted
\* and the relation is pending.
C24_Witness ==
    /\ lastOp.op \in {"way_cb", "way_finish"}
    /\ \E d \in dels :
          /\ d.by = "way" /\ d.t \in {t_line, t_poly}
          /\ d.id \in WaysProcessedExisting
          /\ WayDropped(d.id)
          /\ NoRows(d.id)
          /\ relations_using_way(Cur, d.id) # {}
          /\ relations_using_way(Cur, d.id) \subseteq rels_pending

\* ===================================================== matching the roles
\* pgsql_process_relation has collected the way members and the middle has
\* returned the ways it holds of them.
InitRoles ==
    /\ m_options = [slim |-> FALSE, droptemp |-> FALSE, append |-> FALSE]
    /\ m_enable_way_area = TRUE
    /\ EmitterInit(FALSE)
    /\ fin_options = [parallel_indexing |-> FALSE, enable_hstore_index |-> FALSE,
                      enable_hstore |-> FALSE, tblsmain_index |-> FALSE,
                      hstore_columns |-> 0]
    /\ FinIdle
    /\ StyleDone
    /\ \E members \in MemberArrays :
          \E xid \in FetchResults(way_member_ids(members)) :
              rolescan = [pc |-> "fetched", members |-> members, xid |-> xid,
                          xrole |-> <<>>, j |-> <<>>]

\* The loop for (i = 0; i < count2; i++) that fills xrole.
MatchRoles ==
    /\ rolescan.pc = "fetched"
    /\ \E beyond \in [DOMAIN rolescan.xid -> BeyondArray] :
          rolescan' = [rolescan EXCEPT
              !.pc = "matched",
              !.xrole = match_roles(rolescan.members, rolescan.xid, beyond),
              !.j = [i \in DOMAIN rolescan.xid |->
                        scan_j(rolescan.members, rolescan.xid, i)]]
    /\ UNCHANGED <<m_options, m_enable_way_area, rows, ways_pending, ways_done,
                   rels_pending, mid_ways, mid_rels, phase, m_next_internal_id,
                   copy, pops, proc, pend0, ups, emitted, wrote, dels, lastOp,
                   err, nops, builds>>
    /\ UNCHANGED finvars
    /\ UNCHANGED stylevars

NextRoles == MatchRoles

SpecRoles == InitRoles /\ [][NextRoles]_vars

\* ------------------------------------------------------------------- C25
\* C25: for every way i the bulk fetch returned, the scan index into the
\* member array stays below member_count and the role assigned to the way
\* is the role of a member of the relation with the same ID, whatever the
\* non-way members, the repeated members and the order of the fetch.
C25_RolesMatched ==
    rolescan.pc = "matched" =>
        \A i \in DOMAIN rolescan.xid :
            /\ rolescan.j[i] <= Len(rolescan.members)
            /\ \E k \in DOMAIN rolescan.members :
                  /\ rolescan.members[k].id = rolescan.xid[i]
                  /\ rolescan.members[k].role = rolescan.xrole[i]

\* ------------------------------------------------------------------- C26
\* The row of the line table with the osm_id, geometry and tags of a roads
\* row.
LineRowOf(r) == [r EXCEPT !.t = t_line]

\* C26: every row of the roads table has a row in the line table with the
\* same osm_id and the same geometry, after any sequence of operations; a
\* roads row is written only together with its line row.
C26_RoadsHaveLine ==
    /\ \A r \in BagToSet(rows) :
          r.t = t_roads => CopiesIn(LineRowOf(r), rows) >= CopiesIn(r, rows)
    /\ \A r \in wrote : r.t = t_roads => LineRowOf(r) \in wrote

\* A way with a line and a roads row has been modified: both rows were
\* deleted and written again.
C26_Witness ==
    /\ lastOp.op = "way_modify" /\ ~err
    /\ \E r \in wrote :
          /\ r.t = t_roads /\ r.id = lastOp.id
          /\ [t |-> t_line, id |-> r.id, by |-> "way", live |-> FALSE] \in dels
          /\ CopiesIn(r, rows) = 1
          /\ CopiesIn(LineRowOf(r), rows) = 1

\* ------------------------------------------------------------------- C27
DeleteOps == {"node_delete", "way_delete", "relation_delete"}

\* The rows a delete operation must leave alone: those of other tables than
\* the ones of its object type, and those with another signed key.
NotKeyOf(op, r) ==
    CASE op.op = "node_delete" -> r.t # t_point \/ r.id # op.id
      [] op.op = "way_delete" -> r.t = t_point \/ r.id # op.id
      [] op.op = "relation_delete" -> r.t = t_point \/ r.id # -op.id
      [] OTHER -> FALSE

\* C27: a delete changes only rows with its own signed key in the tables of
\* its object type (point for nodes; line, polygon and roads for ways and
\* relations), writes no row, and marks or unmarks no ID in ways_pending,
\* ways_done and rels_pending.
C27_DeleteFrame ==
    [][lastOp'.op \in DeleteOps =>
          /\ UNCHANGED <<ways_pending, ways_done, rels_pending>>
          /\ wrote' = {}
          /\ \A r \in BagToSet(rows) \cup BagToSet(rows') :
                NotKeyOf(lastOp', r) => CopiesIn(r, rows') = CopiesIn(r, rows)]_vars

\* A relation has been deleted and its line row removed, while a way row
\* stays in the tables and a way is pending.
C27_Witness ==
    /\ lastOp.op = "relation_delete" /\ ~err
    /\ \E d \in dels : d.t = t_line /\ d.id = -lastOp.id
    /\ \E r \in BagToSet(rows) : r.t \in WayTables /\ r.id = lastOp.id
    /\ ways_pending # {}
====

